---- MODULE Spec2Model ----
(***************************************************************************)
(* STREAM risk engine: tender scoring (batch pipeline of ml_model.py and   *)
(* single-submission path of risk_engine.py / app_v3_neon.py), composite   *)
(* vendor profiles (vendor_risk_scorer.py) and fuzzy entity matching       *)
(* (entity_resolution.py).                                                 *)
(*                                                                         *)
(* Numbers: scores are kept in hundredths of a point (the code rounds to   *)
(* two decimals), probabilities in ten-thousandths (predict_df rounds to   *)
(* four decimals), amounts in thousands of rupees (the sentinel 1e12 of    *)
(* the single-submission path is 10^9 thousands).                          *)
(***************************************************************************)
EXTENDS Integers, Sequences, FiniteSets, Bags, TLC

VARIABLES
    \* ---- tender scoring ----
    store,        \* procurement_tender rows / the other rows of the batch frame
    artifacts,    \* TRUE iff the trained scorer was loaded at start-up
    pc,           \* position of the scoring run
    path,         \* "none", "single" or "batch"
    tender,       \* the tender being scored
    flags,        \* its rule flags (plus ml_anomaly_flag in the batch frame)
    prob,         \* <<p>>: anomaly probability p in 1/10000; <<>>: none available
    risk_score,   \* in hundredths
    risk_tier,
    \* ---- vendor profiles ----
    vpc,          \* position of build_vendor_profiles
    buyer_stats,  \* buyer name -> bid_pattern_score (hundredths)
    entity_b2c,   \* list of [buyer_name, matched_cin] rows (buyer-company matches)
    company,      \* the company_df row read last
    buyer_i,      \* number of buyer_stats rows the second loop has passed
    profile,      \* the profile written last
    \* ---- entity matching ----
    names_with_ids, \* input list of build_inverted_index
    entries,      \* list of (entity_id, raw_name, norm, tokens)
    index,        \* token -> list of entries
    hashseed,     \* the process's string-hash seed: fixes set iteration order
    mpc,          \* position of the matching run
    call,         \* inputs of the last find_matches call
    result,       \* its returned list
    scored,       \* the candidates it computed a Jaccard score for, in order
    again,        \* result of repeating the same call
    \* ---- company address network ----
    cpc,          \* position of score_companies
    companies,    \* rows of companies.csv: [CIN, Registered_Office_Address]
    cdf,          \* the frame df: one record per row, columns as they are added
    G,            \* the address network: [nodes, edges], an edge a set of two CINs
    \* ---- political connection scores ----
    bpc,               \* position of compute_political_scores
    bond_flows,        \* rows of the bond-flow table: [purchaser_name, party_name, total_value]
    entity_p2c,        \* purchaser-to-company matches: [purchaser_name, matched_cin]
    purchaser_stats,   \* one record per purchaser, in group order
    connections,       \* the purchaser-to-party list it returns
    political_by_cin,  \* matched CIN -> its political record
    \* ---- a whole run of build_vendor_profiles ----
    rpc,               \* position of the run
    company_df,        \* rows of the company risk file: [cin, shell_risk_score, financials_score]
    profiles,          \* entity_id -> profile
    \* ---- stored tables ----
    files,        \* the input artifacts on disk
    db,           \* the tables of the database and their serial counters
    dpc,          \* the program that ran last
    runs,         \* how often each program has run, and what the first population left
    now,          \* the database clock
    pop,          \* the running populate_risk_alerts process: position, cache, alert ids
    sub,          \* the application's tender worker: position, job, flags so far
    \* ---- pipeline jobs ----
    pipeline_job, \* job_id -> [status]: the rows of the pipeline_job table
    tender_rows,  \* the job ids whose worker stored a procurement_tender row, in order
    wpc,          \* job_id -> position of the job's background worker
    after,        \* job_id -> the job whose task precedes it in its request's task list, or 0
    batch         \* the submit_tender_batch request in its loop: rows left, job ids so far

scoreVars  == <<store, artifacts, pc, path, tender, flags, prob, risk_score, risk_tier>>
vendorVars == <<vpc, buyer_stats, entity_b2c, company, buyer_i, profile>>
matchVars  == <<names_with_ids, entries, index, hashseed, mpc, call, result, scored, again>>
shellVars  == <<cpc, companies, cdf, G>>
bondVars   == <<bpc, bond_flows, entity_p2c, purchaser_stats, connections, political_by_cin>>
runVars    == <<rpc, company_df, profiles>>
dbVars == <<files, db, dpc, runs, now, pop, sub>>
jobVars == <<pipeline_job, tender_rows, wpc, after, batch>>
vars == <<scoreVars, vendorVars, matchVars, shellVars, bondVars, runVars, dbVars, jobVars>>

----------------------------------------------------------------------------
(* Arithmetic helpers *)

Min(a, b) == IF a <= b THEN a ELSE b
Max(a, b) == IF a >= b THEN a ELSE b

\* round(n / d) to the nearest integer, ties to even (n >= 0, d > 0)
RoundDiv(n, d) ==
    LET q == n \div d
        r == n % d
    IN  IF 2 * r < d THEN q
        ELSE IF 2 * r > d THEN q + 1
        ELSE IF q % 2 = 0 THEN q ELSE q + 1

\* Series.clip(lo, hi)
Clip(x, lo, hi) == Max(lo, Min(x, hi))

RECURSIVE SumOver(_, _)
SumOver(S, f) ==
    IF S = {} THEN 0
    ELSE LET x == CHOOSE y \in S : TRUE IN f[x] + SumOver(S \ {x}, f)

RECURSIVE Repeat(_, _)
Repeat(x, n) == IF n = 0 THEN <<>> ELSE <<x>> \o Repeat(x, n - 1)

----------------------------------------------------------------------------
(* Tender scoring: input domains *)

MaxRows == 2          \* capacity of the store (rows loaded or inserted)

BuyerNames == {"b1", "b2"}
\* amounts in thousands of rupees: 0, 50000 and 100000 rupees, and 1e12 + 1e6
\* rupees, which lies above the sentinel of the single-submission path
Amounts == {0, 50, 100}
HugeAmount == 1000001000
TenderAmounts == Amounts \cup {HugeAmount}
Bidders == {0, 1, 3}
Durations == {0, 1, 6, 7}
Methods == {"Open Tender", "open", "Limited"}

\* anomaly_score of the batch frame and suspicion_probability of the scorer, in 1/10000.
\* The values make the blended score land on 30.00 and 60.00 for some flag sets, and
\* none of them puts a sum on a decimal tie (x.xx5), where binary floats decide.
AnomalyScores == {0, 1364, 1967, 10000}

\* decision_function values of the IsolationForest, one per frame row (any scale:
\* the normalisation is invariant under it); no two of them lie a multiple of 8
\* apart, so no batch score is a decimal tie
RawScores == {-1, 0, 2}

\* float("nan"): it fails every comparison, which the formulas below write out
NaN == -1
SuspicionProbs == {0, 1227, 2105, 10000}

\* rows of the tender's category under either buyer, rows of another category
StoreRows ==
    [category : {"c1"}, buyer_name : BuyerNames, amount : Amounts]
        \cup [category : {"c2"}, buyer_name : {"b2"}, amount : Amounts]

\* the observed tender: its category and buyer are fixed, the other rows vary theirs
Tenders == [amount : TenderAmounts, num_tenderers : Bidders, duration_days : Durations,
            procurement_method : Methods, category : {"c1"}, buyer_name : {"b1"}]

NoTender == [amount |-> 0, num_tenderers |-> 0, duration_days |-> 0,
             procurement_method |-> "", category |-> "", buyer_name |-> ""]

\* str.lower() on the procurement methods of the domain
Lower(m) ==
    CASE m = "Open Tender" -> "open tender"
      [] m = "open" -> "open"
      [] m = "Limited" -> "limited"
      [] OTHER -> m

----------------------------------------------------------------------------
(* Record-set statistics *)

RowOf(t) == [category |-> t.category, buyer_name |-> t.buyer_name, amount |-> t.amount]

RECURSIVE BagAsSeq(_)
BagAsSeq(b) ==
    IF BagToSet(b) = {} THEN <<>>
    ELSE LET r == CHOOSE x \in BagToSet(b) : TRUE
         IN  Repeat(r, b[r]) \o BagAsSeq([x \in (DOMAIN b) \ {r} |-> b[x]])

RECURSIVE InsertSorted(_, _)
InsertSorted(x, s) ==
    IF s = <<>> THEN <<x>>
    ELSE IF x <= Head(s) THEN <<x>> \o s
    ELSE <<Head(s)>> \o InsertSorted(x, Tail(s))

RECURSIVE Sort(_)
Sort(s) == IF s = <<>> THEN <<>> ELSE InsertSorted(Head(s), Sort(Tail(s)))

SelectRows(rows, c) == SelectSeq(rows, LAMBDA r : r.category = c)
AmountsOf(rows) == [i \in 1..Len(rows) |-> rows[i].amount]
CountBuyer(rows, b) == Len(SelectSeq(rows, LAMBDA r : r.buyer_name = b))

\* The 0.95 quantile with linear interpolation of a non-empty ascending list,
\* lo + fr/100 * (hi - lo): percentile_cont(0.95) WITHIN GROUP (ORDER BY amount),
\* and Series.quantile(0.95)
Quantile95(s) ==
    LET n   == Len(s)
        pos == 95 * (n - 1)
        lo  == pos \div 100 + 1
        fr  == pos % 100
        hi  == IF fr = 0 THEN lo ELSE lo + 1
    IN  [lo |-> s[lo], hi |-> s[hi], fr |-> fr]

\* amount > quantile, in integers that stay within 32 bits
AboveQuantile(amount, q) ==
    IF amount <= q.lo THEN FALSE
    ELSE IF amount > q.hi THEN TRUE
    ELSE amount - q.lo > q.fr * ((q.hi - q.lo) \div 100)
                             + (q.fr * ((q.hi - q.lo) % 100)) \div 100

\* the quantile of non-negative amounts is 0
QuantileIsZero(q) == q.lo = 0 /\ (q.fr = 0 \/ q.hi = 0)

\* Series.median() of a non-empty list
Median(s) ==
    LET t == Sort(s)
        n == Len(t)
    IN  IF n % 2 = 1 THEN t[(n + 1) \div 2]
        ELSE (t[n \div 2] + t[n \div 2 + 1]) \div 2

----------------------------------------------------------------------------
(* Weights and tiers *)

RuleFlagNames == {"flag_single_bidder", "flag_zero_bidders", "flag_short_window",
                  "flag_non_open", "flag_high_value", "flag_buyer_concentration",
                  "flag_round_amount"}

\* risk_engine.FLAG_WEIGHTS and the weights dict of app_v3_neon.compute_rule_flags
FLAG_WEIGHTS ==
    [flag_single_bidder |-> 25, flag_zero_bidders |-> 20, flag_short_window |-> 15,
     flag_non_open |-> 10, flag_high_value |-> 10, flag_buyer_concentration |-> 10,
     flag_round_amount |-> 5]

\* ml_model.FLAG_WEIGHTS: the batch table also weighs ml_anomaly_flag
BATCH_FLAG_WEIGHTS ==
    [flag_single_bidder |-> 25, flag_zero_bidders |-> 20, flag_short_window |-> 15,
     flag_non_open |-> 10, flag_high_value |-> 10, flag_buyer_concentration |-> 10,
     flag_round_amount |-> 5, ml_anomaly_flag |-> 15]

WeightSum(w) == SumOver(DOMAIN w, w)
WeightedSum(f, w) == SumOver(DOMAIN w, [k \in DOMAIN w |-> f[k] * w[k]])

\* if risk_score >= 60 ... elif risk_score >= 30 ... else
TierOf(score) ==
    IF score >= 6000 THEN "High"
    ELSE IF score >= 3000 THEN "Medium"
    ELSE "Low"

\* pd.cut(risk_score, bins=[0, 30, 60, 100], include_lowest=True): right-closed bins
CutTier(score) ==
    IF score < 0 \/ score > 10000 THEN "NaN"
    ELSE IF score <= 3000 THEN "Low"
    ELSE IF score <= 6000 THEN "Medium"
    ELSE "High"

----------------------------------------------------------------------------
(* Single-submission path: compute_rule_flags(amount, num_tenderers, ...) *)

\* amount > 1e12, the sentinel used when the percentile query returns nothing
SentinelMillions == 1000000
AboveSentinel(amount) ==
    \/ amount \div 1000 > SentinelMillions
    \/ amount \div 1000 = SentinelMillions /\ amount % 1000 > 0

\* p95_val = float(p95["p95"]) if p95 and p95["p95"] else 1e12; amount > p95_val
HighValueSingle(amount, rows) ==
    IF rows = <<>> \/ QuantileIsZero(Quantile95(Sort(AmountsOf(rows))))
    THEN AboveSentinel(amount)
    ELSE AboveQuantile(amount, Quantile95(Sort(AmountsOf(rows))))

\* COALESCE(COUNT(*) FILTER (buyer) / NULLIF(COUNT(*) FILTER (category), 0), 0) > 0.7
BuyerConcentrationSingle(b, rows) ==
    IF rows = <<>> THEN FALSE ELSE 10 * CountBuyer(rows, b) > 7 * Len(rows)

\* mutant: a raised flag counted twice
Bit_Mut(cond) == IF cond THEN 2 ELSE 0

Bit(cond) == IF cond THEN 1 ELSE 0

\* mutant: the zero-bidder test written as "fewer than two bidders"
IsZeroBidders_Mut(n) == n <= 1

\* flags["flag_zero_bidders"] = 1 if num_tenderers == 0 else 0
IsZeroBidders(n) == n = 0

\* flags["flag_short_window"] = 1 if duration_days < 7 else 0
ShortWindowSingle(d) == d < 7

\* flags["flag_non_open"]: procurement_method.lower() not in ("open tender", "open")
NonOpenSingle(method) == Lower(method) \notin {"open tender", "open"}

\* compute_rule_flags against the rows of procurement_tender
compute_rule_flags(t, table) ==
    LET rows == SelectRows(table, t.category)
    IN  [flag_single_bidder |-> Bit(t.num_tenderers = 1),
         flag_zero_bidders |-> Bit(IsZeroBidders(t.num_tenderers)),
         flag_short_window |-> Bit(ShortWindowSingle(t.duration_days)),
         flag_non_open |-> Bit(NonOpenSingle(t.procurement_method)),
         flag_round_amount |-> Bit(t.amount % 100 = 0),
         flag_high_value |-> Bit(HighValueSingle(t.amount, rows)),
         flag_buyer_concentration |-> Bit(BuyerConcentrationSingle(t.buyer_name, rows)),
         ml_anomaly_flag |-> 0]

\* the same with the table kept as a bag of rows
RuleFlagsSingle(t, st) == compute_rule_flags(t, BagAsSeq(st))

\* max_weight = sum(FLAG_WEIGHTS.values())
MaxWeight == WeightSum(FLAG_WEIGHTS)

\* risk_score = round((weighted_sum / max_weight) * 85, 2)
RuleScore(f) == RoundDiv(WeightedSum(f, FLAG_WEIGHTS) * 8500, MaxWeight)

\* ml_boost = suspicion_probability * 15
\* risk_score = min(round(risk_score + ml_boost, 2), 100)
BlendScore(score, p) == Min(RoundDiv(score * 100 + 15 * p, 100), 10000)

\* if risk_score >= 60: High / elif risk_score >= 30: Medium / (no else: tier kept)
BlendTier(score, old) ==
    IF score >= 6000 THEN "High"
    ELSE IF score >= 3000 THEN "Medium"
    ELSE old

----------------------------------------------------------------------------
(* Batch pipeline: engineer_features, compute_rule_flags(df), compute_risk_score(df) *)

\* df['amount'].fillna(median).replace(0, median)
EngineeredAmount(a, median) == IF a = 0 THEN median ELSE a

EngineerRows(rows) ==
    LET median == Median(AmountsOf(rows))
    IN  [i \in 1..Len(rows) |->
            [rows[i] EXCEPT !.amount = EngineeredAmount(rows[i].amount, median)]]

\* the batch frame: the tender is row 1, the other rows follow
BatchFrame(t, st) == EngineerRows(<<RowOf(t)>> \o BagAsSeq(st))

\* the batch test written as in the single-submission path
ShortWindowBatch_Mut(d) == d < 7

\* (df['duration_days'] > 0) & (df['duration_days'] < 7)
ShortWindowBatch(d) == d > 0 /\ d < 7

\* ~df['tender/procurementMethod'].isin(['Open Tender'])
NonOpenBatch(method) == method \notin {"Open Tender"}

RuleFlagsBatch(t, st, mlflag) ==
    LET df     == BatchFrame(t, st)
        amount == df[1].amount
        rows   == SelectRows(df, t.category)
    IN  [flag_single_bidder |-> Bit(t.num_tenderers = 1),
         flag_zero_bidders |-> Bit(t.num_tenderers = 0),
         flag_short_window |-> Bit(ShortWindowBatch(t.duration_days)),
         flag_non_open |-> Bit(NonOpenBatch(t.procurement_method)),
         flag_high_value |-> Bit(AboveQuantile(amount, Quantile95(Sort(AmountsOf(rows))))),
         flag_buyer_concentration |-> Bit(10 * CountBuyer(rows, t.buyer_name) > 7 * Len(rows)),
         flag_round_amount |-> Bit(amount % 100 = 0),
         ml_anomaly_flag |-> mlflag]

\* max_rule = sum(FLAG_WEIGHTS.values())
MaxRule == WeightSum(BATCH_FLAG_WEIGHTS)

MinOf(raws) == CHOOSE x \in {raws[i] : i \in DOMAIN raws} :
                   \A i \in DOMAIN raws : x <= raws[i]
MaxOf(raws) == CHOOSE x \in {raws[i] : i \in DOMAIN raws} :
                   \A i \in DOMAIN raws : x >= raws[i]

\* df['anomaly_score'] = 1 - (raw_scores - raw_scores.min())
\*                            / (raw_scores.max() - raw_scores.min())
\* of row i as the fraction num / den; den = 0 is the division 0 / 0
run_anomaly_detection(raws, i) ==
    [num |-> MaxOf(raws) - raws[i], den |-> MaxOf(raws) - MinOf(raws)]

\* df['ml_anomaly_flag'] = (iso.predict(X) == -1): predict is -1 exactly where
\* decision_function is negative
MlAnomalyFlag(raw) == IF raw < 0 THEN 1 ELSE 0

\* anomaly_score to four decimals
AnomalyScore(a) == IF a.den = 0 THEN NaN ELSE RoundDiv(10000 * a.num, a.den)

\* compute_risk_score on a row whose anomaly_score is the fraction a: a NaN
\* anomaly_score makes the sum NaN, which clip and round hand on
BatchScoreOf(f, a) ==
    IF a.den = 0 THEN NaN
    ELSE RoundDiv(Clip(WeightedSum(f, BATCH_FLAG_WEIGHTS) * 8500 * a.den
                           + 1500 * a.num * MaxRule,
                       0, 10000 * MaxRule * a.den),
                  MaxRule * a.den)

\* ((rule_score / max_rule) * 85 + anomaly_score * 15).clip(0, 100).round(2)
BatchScore(f, a) ==
    RoundDiv(Clip(WeightedSum(f, BATCH_FLAG_WEIGHTS) * 850000 + 15 * a * MaxRule,
                  0, 1000000 * MaxRule),
             100 * MaxRule)

----------------------------------------------------------------------------
(* Resting values of the three parts of the state *)

NoFlags == [k \in DOMAIN BATCH_FLAG_WEIGHTS |-> 0]

NoCompany == [cin |-> "", shell_risk_score |-> 0, political_score |-> 0,
              financials_score |-> 0]
NoProfile == [kind |-> "none", entity_id |-> "", composite_risk_score |-> 0,
              risk_tier |-> "", bid_pattern |-> 0, shell_risk |-> 0, political |-> 0,
              financials |-> 0, requires_human_review |-> FALSE]

IdleVendor ==
    /\ vpc = "idle"
    /\ buyer_stats = <<>>
    /\ entity_b2c = <<>>
    /\ company = NoCompany
    /\ buyer_i = 0
    /\ profile = NoProfile

IdleScore ==
    /\ store = EmptyBag
    /\ pc = "idle"
    /\ path = "none"
    /\ tender = NoTender
    /\ flags = NoFlags
    /\ prob = <<>>
    /\ risk_score = 0
    /\ risk_tier = "none"

----------------------------------------------------------------------------
(* Tender scoring: actions *)

\* An INSERT INTO procurement_tender of another session commits (the migration,
\* or the worker of another request). It can commit at any moment; the run reads
\* the table in its two queries only, so the moments that differ are before the
\* first query and between the two
LoadRow(r) ==
    /\ pc \in {"idle", "percentile"}
    \* the running worker's own row keeps its place in the bounded store
    /\ BagCardinality(store) + (IF pc = "idle" THEN 0 ELSE 1) < MaxRows
    /\ store' = store (+) SetToBag({r})
    /\ UNCHANGED <<artifacts, pc, path, tender, flags, prob, risk_score, risk_tier>>

\* submit_tender: the worker _run_pipeline_for_tender starts on the tender
SubmitTender(t) ==
    /\ pc = "idle"
    /\ BagCardinality(store) < MaxRows
    /\ pc' = "running"
    /\ path' = "single"
    /\ tender' = t
    /\ flags' = NoFlags
    /\ prob' = <<>>
    /\ risk_score' = 0
    /\ risk_tier' = "none"
    /\ UNCHANGED <<store, artifacts>>

\* Step 1 of the worker, compute_rule_flags up to its first query: the five flags
\* of the tender's own fields, then the percentile query (one transaction on a
\* pooled connection) and flag_high_value
RunPercentileQuery ==
    /\ pc = "running"
    /\ flags' = [RuleFlagsSingle(tender, store) EXCEPT !.flag_buyer_concentration = 0]
    /\ pc' = "percentile"
    /\ UNCHANGED <<store, artifacts, path, tender, prob, risk_score, risk_tier>>

\* compute_rule_flags from its second query on: the share query (a transaction of
\* its own) and flag_buyer_concentration, then risk_score and risk_tier
RunShareQuery ==
    /\ pc = "percentile"
    /\ LET f == [flags EXCEPT !.flag_buyer_concentration =
                     RuleFlagsSingle(tender, store).flag_buyer_concentration]
       IN  /\ flags' = f
           /\ risk_score' = RuleScore(f)
           /\ risk_tier' = TierOf(RuleScore(f))
    /\ pc' = "flagged"
    /\ UNCHANGED <<store, artifacts, path, tender, prob>>

\* Step 2 of the worker with a scorer loaded: predict and blend
RunMLBlend(p) ==
    /\ pc = "flagged"
    /\ artifacts
    /\ prob' = <<p>>
    /\ risk_score' = BlendScore(risk_score, p)
    /\ risk_tier' = BlendTier(BlendScore(risk_score, p), risk_tier)
    /\ pc' = "scored"
    /\ UNCHANGED <<store, artifacts, path, tender, flags>>

\* Step 2 of the worker without a scorer: "if artifacts:" is skipped
SkipMLBlend ==
    /\ pc = "flagged"
    /\ ~artifacts
    /\ pc' = "scored"
    /\ UNCHANGED <<store, artifacts, path, tender, flags, prob, risk_score, risk_tier>>

\* ml_model.run_pipeline on the frame made of the tender (row 1) and the loaded
\* rows; the decision_function values of the IsolationForest, one per row of the
\* frame, are inputs
RunBatch(t, raws) ==
    /\ pc = "idle"
    /\ DOMAIN raws = 1..(1 + BagCardinality(store))
    /\ pc' = "scored"
    /\ path' = "batch"
    /\ tender' = t
    /\ LET a == run_anomaly_detection(raws, 1)
           f == RuleFlagsBatch(t, store, MlAnomalyFlag(raws[1]))
       IN  /\ flags' = f
           /\ risk_score' = BatchScoreOf(f, a)
           /\ risk_tier' = CutTier(BatchScoreOf(f, a))
           /\ prob' = <<AnomalyScore(a)>>
    /\ UNCHANGED <<store, artifacts>>

\* ml_model.compute_risk_score on a frame row whose flag columns and anomaly_score
\* are given (the function takes any frame that carries these columns; no stored
\* row takes part)
ScoreFrame(f, a) ==
    /\ pc = "idle"
    /\ store = EmptyBag
    /\ pc' = "scored"
    /\ path' = "frame"
    /\ tender' = NoTender
    /\ flags' = f
    /\ prob' = <<a>>
    /\ risk_score' = BatchScore(f, a)
    /\ risk_tier' = CutTier(BatchScore(f, a))
    /\ UNCHANGED <<store, artifacts>>

\* Step 4 of the worker: INSERT INTO procurement_tender, then the job is completed
InsertTender ==
    /\ pc = "scored"
    /\ path = "single"
    /\ store' = store (+) SetToBag({RowOf(tender)})
    /\ pc' = "idle"
    /\ path' = "none"
    /\ tender' = NoTender
    /\ flags' = NoFlags
    /\ prob' = <<>>
    /\ risk_score' = 0
    /\ risk_tier' = "none"
    /\ UNCHANGED artifacts

\* run_pipeline writes procurement_risk_scores.csv and returns
WriteBatch ==
    /\ pc = "scored"
    /\ path \in {"batch", "frame"}
    /\ pc' = "idle"
    /\ path' = "none"
    /\ tender' = NoTender
    /\ flags' = NoFlags
    /\ prob' = <<>>
    /\ risk_score' = 0
    /\ risk_tier' = "none"
    /\ UNCHANGED <<store, artifacts>>

IdleMatch ==
    /\ names_with_ids = <<>>
    /\ entries = <<>>
    /\ index = <<>>
    /\ hashseed = 0
    /\ mpc = "build"
    /\ call = <<>>
    /\ result = <<>>
    /\ scored = <<>>
    /\ again = <<>>

NoGraph == [nodes |-> {}, edges |-> {}]

IdleShell ==
    /\ cpc = "idle"
    /\ companies = <<>>
    /\ cdf = <<>>
    /\ G = NoGraph

IdleBond ==
    /\ bpc = "idle"
    /\ bond_flows = <<>>
    /\ entity_p2c = <<>>
    /\ purchaser_stats = <<>>
    /\ connections = <<>>
    /\ political_by_cin = <<>>

IdleJobs ==
    /\ pipeline_job = <<>>
    /\ tender_rows = <<>>
    /\ wpc = <<>>
    /\ after = <<>>
    /\ batch = <<>>

IdleDb ==
    /\ dpc = "idle"
    /\ files = <<>>
    /\ db = <<>>
    /\ runs = <<>>
    /\ now = 0
    /\ pop = <<>>
    /\ sub = <<>>

IdleRun ==
    /\ rpc = "idle"
    /\ company_df = <<>>
    /\ profiles = <<>>

Init ==
    /\ IdleRun
    /\ IdleDb
    /\ IdleJobs
    /\ IdleBond
    /\ IdleShell
    /\ IdleScore
    /\ artifacts \in BOOLEAN
    /\ IdleVendor
    /\ IdleMatch

Next ==
    \/ \E r \in StoreRows : LoadRow(r) /\ UNCHANGED <<vendorVars, matchVars, shellVars, bondVars, runVars, dbVars, jobVars>>
    \/ \E t \in Tenders : SubmitTender(t) /\ UNCHANGED <<vendorVars, matchVars, shellVars, bondVars, runVars, dbVars, jobVars>>
    \/ RunPercentileQuery /\ UNCHANGED <<vendorVars, matchVars, shellVars, bondVars, runVars, dbVars, jobVars>>
    \/ RunShareQuery /\ UNCHANGED <<vendorVars, matchVars, shellVars, bondVars, runVars, dbVars, jobVars>>
    \/ \E p \in SuspicionProbs : RunMLBlend(p) /\ UNCHANGED <<vendorVars, matchVars, shellVars, bondVars, runVars, dbVars, jobVars>>
    \/ SkipMLBlend /\ UNCHANGED <<vendorVars, matchVars, shellVars, bondVars, runVars, dbVars, jobVars>>
    \/ InsertTender /\ UNCHANGED <<vendorVars, matchVars, shellVars, bondVars, runVars, dbVars, jobVars>>
    \/ \E t \in Tenders, raws \in [1..(1 + BagCardinality(store)) -> RawScores] :
           RunBatch(t, raws) /\ UNCHANGED <<vendorVars, matchVars, shellVars, bondVars, runVars, dbVars, jobVars>>
    \/ \E f \in [DOMAIN BATCH_FLAG_WEIGHTS -> {0, 1}], a \in AnomalyScores :
           ScoreFrame(f, a) /\ UNCHANGED <<vendorVars, matchVars, shellVars, bondVars, runVars, dbVars, jobVars>>
    \/ WriteBatch /\ UNCHANGED <<vendorVars, matchVars, shellVars, bondVars, runVars, dbVars, jobVars>>

Spec == Init /\ [][Next]_vars

----------------------------------------------------------------------------
(* Claims on tender scoring *)

Scored == pc \in {"flagged", "scored"}
RuleOnly == path = "single" /\ Scored /\ prob = <<>>

\* C1: every scored tender, batch or single submission, has risk_score in [0, 100]
C1_ScoreInRange ==
    Scored => (risk_score # NaN /\ risk_score >= 0 /\ risk_score <= 10000)

\* C2: Low iff score < 30, Medium iff 30 <= score < 60, High iff score >= 60,
\* in the batch pipeline and in the single-submission path alike
C2_TierMatchesScore ==
    Scored =>
        /\ (risk_tier = "Low") <=> (risk_score # NaN /\ risk_score < 3000)
        /\ (risk_tier = "Medium") <=> (risk_score >= 3000 /\ risk_score < 6000)
        /\ (risk_tier = "High") <=> (risk_score >= 6000)

\* the seven rule flags only
RuleWeightedSum(f) == WeightedSum(f, FLAG_WEIGHTS)

\* C3: in every path that has an anomaly probability p,
\* risk_score = clip(weighted_sum / 95 * 85 + p * 15, 0, 100) with weighted_sum over
\* the seven rule flags (stated up to one hundredth, whatever the rounding order)
C3_ScoreFormula ==
    (pc = "scored" /\ prob # <<>> /\ prob[1] # NaN) =>
        LET expected == RoundDiv(Clip(RuleWeightedSum(flags) * 850000 + 15 * prob[1] * 95,
                                      0, 1000000 * 95), 9500)
        IN  risk_score - expected \in {-1, 0, 1}

\* the highest rule-only score over all tenders and all stores of up to one row
MaxRuleOnlyScore ==
    LET stores == {EmptyBag} \cup {SetToBag({r}) : r \in StoreRows}
        scores == {RuleScore(RuleFlagsSingle(t, st)) : t \in Tenders, st \in stores}
    IN  CHOOSE m \in scores : \A x \in scores : x <= m

\* C4 as stated: without a scorer no score exceeds 85 and the highest attainable
\* rule-only score is 85
C4_MaxIs85 ==
    RuleOnly =>
        /\ risk_score <= 8500
        /\ (risk_score = MaxRuleOnlyScore => risk_score = 8500)

\* C4 amended: the rule-only score is weighted_sum / 95 * 85 with no ML term and no
\* rescaling, and never exceeds 67.11 (weighted sum 75: the single-bidder and
\* zero-bidder flags exclude each other)
C4_RuleOnlyMax ==
    RuleOnly =>
        /\ risk_score = RoundDiv(RuleWeightedSum(flags) * 8500, 95)
        /\ risk_score <= 6711

\* C4 witness: a tender scored without a scorer reaches 67.11
C4_Witness == RuleOnly /\ pc = "scored" /\ ~artifacts /\ risk_score = 6711

\* the flags of the tender are computed
Flagged == pc \in {"flagged", "scored"} /\ path \in {"single", "batch"}

\* C15: in the batch pipeline flag_short_window = 1 iff 0 < duration_days < 7, in
\* the single-submission path iff duration_days < 7; for duration_days >= 1 the
\* two paths give the tender the same flag
C15_ShortWindowModes ==
    Flagged =>
        /\ path = "batch" =>
               (flags.flag_short_window = 1
                    <=> (0 < tender.duration_days /\ tender.duration_days < 7))
        /\ path = "single" =>
               (flags.flag_short_window = 1 <=> tender.duration_days < 7)
        /\ tender.duration_days >= 1 =>
               RuleFlagsBatch(tender, store, 0).flag_short_window
                   = RuleFlagsSingle(tender, store).flag_short_window

\* C15 witness: a batch tender of duration 0 is not flagged
C15_Witness ==
    /\ Flagged /\ path = "batch"
    /\ tender.duration_days = 0
    /\ flags.flag_short_window = 0
    /\ RuleFlagsSingle(tender, store).flag_short_window = 1

\* C16: in both paths flag_non_open is 0 exactly when the procurement method,
\* compared without regard to case, is "open tender" or "open"
C16_NonOpenCaseInsensitive ==
    Flagged =>
        (flags.flag_non_open = 0
             <=> Lower(tender.procurement_method) \in {"open tender", "open"})

CategoryRows == SelectRows(BagAsSeq(store), tender.category)

\* C17: in the single-submission path, when the tender's category has no prior
\* record, flag_high_value is 0 for every amount and flag_buyer_concentration is 0
C17_EmptyCategoryNeverFires ==
    (Flagged /\ path = "single" /\ CategoryRows = <<>>) =>
        /\ flags.flag_high_value = 0
        /\ flags.flag_buyer_concentration = 0

\* C18: in both paths flag_round_amount = 1 iff the tender's amount is a multiple
\* of 100000 rupees, the amount 0 included
C18_RoundAmount ==
    Flagged => (flags.flag_round_amount = 1 <=> tender.amount % 100 = 0)

\* C19: for the same tender and the same record set, flag_high_value and
\* flag_buyer_concentration of the batch pipeline equal those of the
\* single-submission path
C19_SameStatistics ==
    Flagged =>
        /\ RuleFlagsBatch(tender, store, 0).flag_high_value
               = RuleFlagsSingle(tender, store).flag_high_value
        /\ RuleFlagsBatch(tender, store, 0).flag_buyer_concentration
               = RuleFlagsSingle(tender, store).flag_buyer_concentration

\* C24: each of the seven rule flags of a tender is 0 or 1, in the batch
\* pipeline and in the single-submission path
C24_FlagsAreBits ==
    Flagged => \A k \in RuleFlagNames : flags[k] \in {0, 1}

\* C24 witness: a batch tender with one flag raised and another one not
C24_Witness ==
    /\ Flagged /\ path = "batch"
    /\ flags.flag_buyer_concentration = 1
    /\ flags.flag_high_value = 0

\* C26: flag_single_bidder and flag_zero_bidders are never both 1 for a tender,
\* in either path, and so the weighted sum of its seven rule flags is at most 75
C26_BidderFlagsExclusive ==
    Flagged =>
        /\ ~(flags.flag_single_bidder = 1 /\ flags.flag_zero_bidders = 1)
        /\ RuleWeightedSum(flags) <= WeightSum(FLAG_WEIGHTS) - FLAG_WEIGHTS.flag_zero_bidders
        /\ RuleWeightedSum(flags) <= 75

\* C26 witness: a single-bidder tender with every other flag but zero-bidders
\* raised has the weighted sum 75
C26_Witness ==
    /\ Flagged
    /\ flags.flag_single_bidder = 1
    /\ RuleWeightedSum(flags) = 75

----------------------------------------------------------------------------
(* Vendor profiles: vendor_risk_scorer.build_vendor_profiles *)

MaxMatches == 2       \* rows of the buyer-company match table

Cins == {"CIN1", "CIN2"}
VendorBuyers == {"B1", "B2"}
\* groupby("buyer/name") yields the buyers in sorted order
BuyerOrder == <<"B1", "B2">>

\* sub-scores in hundredths; none of their weighted sums is a decimal tie
BidScores == {0, 2500, 6000, 9999, 10000}
ShellScores == {0, 2000, 10000}
PoliticalScores == {0, 4000, 10000}
FinancialScores == {0, 2500, 10000}

CompanyRows == [cin : Cins, shell_risk_score : ShellScores,
                political_score : PoliticalScores, financials_score : FinancialScores]
MatchRows == [buyer_name : VendorBuyers, matched_cin : Cins]
BuyerStatsTables == UNION {[S -> BidScores] : S \in SUBSET VendorBuyers}

RECURSIVE SeqsUpTo(_, _)
SeqsUpTo(S, n) ==
    IF n = 0 THEN {<<>>}
    ELSE LET shorter == SeqsUpTo(S, n - 1)
         IN  shorter \cup {Append(q, x) : q \in {t \in shorter : Len(t) = n - 1}, x \in S}

DIMENSION_WEIGHTS ==
    [bid_pattern |-> 30, shell_risk |-> 25, political |-> 25, financials |-> 20]

\* the bid-pattern lookup of the company loop: first match row of the CIN, then
\* the buyer_stats row of its buyer
BidScoreOf(cin, b2c, stats) ==
    LET matched == SelectSeq(b2c, LAMBDA r : r.matched_cin = cin)
    IN  IF matched = <<>> THEN 0
        ELSE IF matched[1].buyer_name \in DOMAIN stats
             THEN stats[matched[1].buyer_name]
             ELSE 0

\* mutant: the financials dimension weighted 25 (weights summing to 105)
Composite_Mut(bid, shell, political, fin) ==
    RoundDiv(Min(bid * 30 + shell * 25 + political * 25 + fin * 25, 1000000), 100)

\* composite = bid*w/100 + shell*w/100 + political*w/100 + fin*w/100
\* composite = round(min(composite, 100), 2)
Composite(bid, shell, political, fin) ==
    RoundDiv(Min(bid * DIMENSION_WEIGHTS.bid_pattern
                   + shell * DIMENSION_WEIGHTS.shell_risk
                   + political * DIMENSION_WEIGHTS.political
                   + fin * DIMENSION_WEIGHTS.financials, 1000000), 100)

\* if x >= 60: HIGH / elif x >= 30: MEDIUM / else LOW
VendorTier(x) ==
    IF x >= 6000 THEN "HIGH" ELSE IF x >= 3000 THEN "MEDIUM" ELSE "LOW"

CompanyProfile(row, b2c, stats) ==
    LET bid == BidScoreOf(row.cin, b2c, stats)
        c   == Composite(bid, row.shell_risk_score, row.political_score,
                         row.financials_score)
    IN  [kind |-> "company", entity_id |-> row.cin, composite_risk_score |-> c,
         risk_tier |-> VendorTier(c), bid_pattern |-> bid,
         shell_risk |-> row.shell_risk_score, political |-> row.political_score,
         financials |-> row.financials_score, requires_human_review |-> c >= 2500]

\* entity_id = f"BUYER_{buyer_name[:60]}" (the names of the domain are shorter than 60)
BuyerEntityId(name) ==
    CASE name = "B1" -> "BUYER_B1"
      [] name = "B2" -> "BUYER_B2"
      [] OTHER -> "BUYER_"

\* the profile of a buyer without CIN: tier and review flag are taken from bid_score
BuyerProfile(name, bid) ==
    [kind |-> "buyer", entity_id |-> BuyerEntityId(name),
     composite_risk_score |-> RoundDiv(bid * DIMENSION_WEIGHTS.bid_pattern, 100),
     risk_tier |-> VendorTier(bid), bid_pattern |-> bid,
     shell_risk |-> 0, political |-> 0, financials |-> 0,
     requires_human_review |-> bid >= 2500]

\* the buyers of buyer_stats in iteration order
BuyerList(stats) == SelectSeq(BuyerOrder, LAMBDA b : b \in DOMAIN stats)

\* buyer_name in entity_b2c["buyer_name"].values
AlreadyMatched(name, b2c) == \E i \in 1..Len(b2c) : b2c[i].buyer_name = name

\* first loop: one company_df row is read and its profile written
ProfileCompany(row) ==
    /\ vpc = "companies"
    /\ company' = row
    /\ profile' = CompanyProfile(row, entity_b2c, buyer_stats)
    /\ UNCHANGED <<vpc, buyer_stats, entity_b2c, buyer_i>>

\* the first loop ends
EndCompanies ==
    /\ vpc = "companies"
    /\ vpc' = "buyers"
    /\ UNCHANGED <<buyer_stats, entity_b2c, company, buyer_i, profile>>

\* second loop: the next buyer_stats row; skipped when the buyer has a match row
ProfileBuyer ==
    /\ vpc = "buyers"
    /\ buyer_i < Len(BuyerList(buyer_stats))
    /\ buyer_i' = buyer_i + 1
    /\ LET name == BuyerList(buyer_stats)[buyer_i + 1]
       IN  profile' = IF AlreadyMatched(name, entity_b2c)
                      THEN profile
                      ELSE BuyerProfile(name, buyer_stats[name])
    /\ UNCHANGED <<vpc, buyer_stats, entity_b2c, company>>

\* the profiles are saved
SaveProfiles ==
    /\ vpc = "buyers"
    /\ buyer_i = Len(BuyerList(buyer_stats))
    /\ vpc' = "done"
    /\ UNCHANGED <<buyer_stats, entity_b2c, company, buyer_i, profile>>

InitVendor ==
    /\ IdleScore
    /\ IdleShell
    /\ IdleBond
    /\ IdleRun
    /\ IdleDb
    /\ IdleJobs
    /\ artifacts = FALSE
    /\ IdleMatch
    /\ vpc = "companies"
    /\ buyer_stats \in BuyerStatsTables
    /\ entity_b2c \in SeqsUpTo(MatchRows, MaxMatches)
    /\ company = NoCompany
    /\ buyer_i = 0
    /\ profile = NoProfile

NextVendor ==
    \/ \E row \in CompanyRows : ProfileCompany(row) /\ UNCHANGED <<scoreVars, matchVars, shellVars, bondVars, runVars, dbVars, jobVars>>
    \/ EndCompanies /\ UNCHANGED <<scoreVars, matchVars, shellVars, bondVars, runVars, dbVars, jobVars>>
    \/ ProfileBuyer /\ UNCHANGED <<scoreVars, matchVars, shellVars, bondVars, runVars, dbVars, jobVars>>
    \/ SaveProfiles /\ UNCHANGED <<scoreVars, matchVars, shellVars, bondVars, runVars, dbVars, jobVars>>

SpecVendor == InitVendor /\ [][NextVendor]_vars

----------------------------------------------------------------------------
(* Claims on vendor profiles *)

WeightedSubScores(pr) ==
    pr.bid_pattern * 30 + pr.shell_risk * 25 + pr.political * 25 + pr.financials * 20

AllSubScoresFull(pr) ==
    /\ pr.bid_pattern = 10000 /\ pr.shell_risk = 10000
    /\ pr.political = 10000 /\ pr.financials = 10000

\* C5 as stated: a company profile's composite is bid*30/100 + shell*25/100 +
\* political*25/100 + financials*20/100 (to the hundredth), lies in [0, 100], and is
\* 100 only when all four sub-scores are 100
C5_FullOnlyWhenAllFull ==
    profile.kind = "company" =>
        /\ profile.composite_risk_score * 100 - WeightedSubScores(profile) \in -50..50
        /\ profile.composite_risk_score >= 0
        /\ profile.composite_risk_score <= 10000
        /\ (profile.composite_risk_score = 10000 => AllSubScoresFull(profile))

\* C5 amended: the composite is the weighted sum rounded to two decimals, lies in
\* [0, 100]; the weighted sum itself is 100 only when all four sub-scores are 100,
\* and the rounded composite is 100 exactly when the sum is at least 99.995
C5_CompositeBounded ==
    profile.kind = "company" =>
        /\ profile.composite_risk_score = RoundDiv(WeightedSubScores(profile), 100)
        /\ profile.composite_risk_score >= 0
        /\ profile.composite_risk_score <= 10000
        /\ (WeightedSubScores(profile) = 1000000 <=> AllSubScoresFull(profile))
        /\ (profile.composite_risk_score = 10000 <=> WeightedSubScores(profile) >= 999950)

\* C5 witness: a company whose four sub-scores are all 100 gets composite 100
C5_Witness ==
    /\ profile.kind = "company"
    /\ AllSubScoresFull(profile)
    /\ profile.composite_risk_score = 10000

\* C6: every emitted profile, degraded buyer profiles included, has tier High iff
\* composite >= 60, Medium iff 30 <= composite < 60, Low otherwise
C6_TierMatchesComposite ==
    profile.kind # "none" =>
        profile.risk_tier =
            (IF profile.composite_risk_score >= 6000 THEN "HIGH"
             ELSE IF profile.composite_risk_score >= 3000 THEN "MEDIUM"
             ELSE "LOW")

\* C7: every emitted profile, degraded buyer profiles included, requires human
\* review iff its composite_risk_score >= 25
C7_ReviewMatchesComposite ==
    profile.kind # "none" =>
        (profile.requires_human_review <=> profile.composite_risk_score >= 2500)

----------------------------------------------------------------------------
(* Entity matching (entity_resolution.py).  A name is the tuple of its      *)
(* characters; a score is the fraction [num, den] in lowest terms, which    *)
(* compares as the quotient len(intersection) / len(union) does.            *)

MaxEntries == 2
MaxTopK == 2

UpperLetters == <<"A", "B", "C", "D", "E", "F", "G", "H", "I", "J", "K", "L", "M", "N", "O", "P", "Q", "R", "S", "T", "U", "V", "W", "X", "Y", "Z">>
LowerLetters == <<"a", "b", "c", "d", "e", "f", "g", "h", "i", "j", "k", "l", "m", "n", "o", "p", "q", "r", "s", "t", "u", "v", "w", "x", "y", "z">>
Digits == <<"0", "1", "2", "3", "4", "5", "6", "7", "8", "9">>
Whitespace == {" "}

\* str.lower() on one character
LowerChar(c) ==
    IF \E i \in 1..26 : UpperLetters[i] = c
    THEN LowerLetters[CHOOSE i \in 1..26 : UpperLetters[i] = c]
    ELSE c

\* the character class [a-z0-9\s]
KeptChar(c) ==
    \/ \E i \in 1..26 : LowerLetters[i] = c
    \/ \E i \in 1..10 : Digits[i] = c
    \/ c \in Whitespace

\* the words of the STRIP_SUFFIXES patterns (each pattern is \bword\b)
STRIP_SUFFIXES == {
    <<"p", "r", "i", "v", "a", "t", "e">>,
    <<"l", "i", "m", "i", "t", "e", "d">>,
    <<"p", "v", "t">>,
    <<"l", "t", "d">>,
    <<"l", "l", "p">>,
    <<"o", "p", "c">>,
    <<"i", "n", "c">>,
    <<"c", "o", "r", "p">>,
    <<"c", "o", "m", "p", "a", "n", "y">>,
    <<"e", "n", "t", "e", "r", "p", "r", "i", "s", "e", "s">>,
    <<"g", "r", "o", "u", "p">>,
    <<"f", "o", "u", "n", "d", "a", "t", "i", "o", "n">>,
    <<"t", "r", "u", "s", "t">> }

\* a value that is not a str (a missing name)
NotAString == <<"NaN">>

RECURSIVE SplitFrom(_, _, _, _)
SplitFrom(s, i, cur, acc) ==
    IF i > Len(s) THEN (IF cur = <<>> THEN acc ELSE Append(acc, cur))
    ELSE IF s[i] \in Whitespace
         THEN SplitFrom(s, i + 1, <<>>, IF cur = <<>> THEN acc ELSE Append(acc, cur))
         ELSE SplitFrom(s, i + 1, Append(cur, s[i]), acc)

\* str.split(): the maximal runs of non-whitespace characters
Split(s) == SplitFrom(s, 1, <<>>, <<>>)

RECURSIVE JoinWords(_)
JoinWords(ws) ==
    IF ws = <<>> THEN <<>>
    ELSE IF Len(ws) = 1 THEN ws[1]
    ELSE ws[1] \o <<" ">> \o JoinWords(Tail(ws))

\* between word characters and whitespace, \bword\b matches exactly the
\* whitespace-delimited words equal to word; the final collapse and strip
\* leave the remaining words joined by single spaces
normalise_name(name) ==
    IF name = NotAString THEN <<>>
    ELSE LET lowered == [i \in 1..Len(name) |-> LowerChar(name[i])]
             spaced  == [i \in 1..Len(name) |->
                            IF KeptChar(lowered[i]) THEN lowered[i] ELSE " "]
             NotSuffix(w) == w \notin STRIP_SUFFIXES
         IN  JoinWords(SelectSeq(Split(spaced), NotSuffix))

tokenise(name) ==
    LET tokens == Split(name)
    IN  {tokens[i] : i \in {j \in 1..Len(tokens) : Len(tokens[j]) > 1}}

RECURSIVE Gcd(_, _)
Gcd(a, b) == IF b = 0 THEN a ELSE Gcd(b, a % b)

Frac(n, d) == [num |-> n \div Gcd(n, d), den |-> d \div Gcd(n, d)]

jaccard_similarity(set_a, set_b) ==
    IF set_a = {} \/ set_b = {} THEN Frac(0, 1)
    ELSE Frac(Cardinality(set_a \cap set_b), Cardinality(set_a \cup set_b))

\* ---- inputs of the matching run ----

Name_ABPvtLtd == <<"A", "B", " ", "P", "v", "t", ".", " ", "L", "t", "d", ".">>
Name_ABPrivateLimited == <<"A", "B", " ", "P", "r", "i", "v", "a", "t", "e", " ", "L", "i", "m", "i", "t", "e", "d">>
Name_ab_cd == <<"a", "b", " ", "c", "d">>
Name_ab_ef == <<"a", "b", " ", "e", "f">>
Name_cd_gh == <<"c", "d", "-", "g", "h">>
Name_ALtd == <<"A", " ", "L", "t", "d">>
Name_a == <<"a">>
Name_ab_cd_ef == <<"a", "b", " ", "c", "d", " ", "e", "f">>

EntityIds == {1, 2}
EntryNames == {Name_ABPvtLtd, Name_ab_ef, Name_cd_gh, Name_ALtd, Name_ab_cd_ef, NotAString}
QueryNames == {Name_ABPrivateLimited, Name_ab_cd, Name_a, NotAString}
Thresholds == {0, 40, 55}          \* in hundredths; MATCH_THRESHOLD is 55
TopKs == 0..MaxTopK
HashSeeds == {0, 1}                \* PYTHONHASHSEED of the process

NoCall == [query |-> NotAString, threshold |-> 0, top_k |-> 0]

\* ---- set iteration order ----

CharRank(c) ==
    IF \E i \in 1..26 : LowerLetters[i] = c
    THEN CHOOSE i \in 1..26 : LowerLetters[i] = c
    ELSE IF \E i \in 1..10 : Digits[i] = c
    THEN 26 + (CHOOSE i \in 1..10 : Digits[i] = c)
    ELSE 0

RECURSIVE LexLess(_, _)
LexLess(a, b) ==
    IF a = <<>> THEN b # <<>>
    ELSE IF b = <<>> THEN FALSE
    ELSE IF CharRank(Head(a)) # CharRank(Head(b)) THEN CharRank(Head(a)) < CharRank(Head(b))
    ELSE LexLess(Tail(a), Tail(b))

\* The order in which "for token in query_tokens" visits a set of strings is
\* fixed by the hash seed of the process, not by the set.  Two seeds stand for
\* two processes that visit the same set in opposite orders.
RECURSIVE IterOrder(_, _)
IterOrder(S, seed) ==
    IF S = {} THEN <<>>
    ELSE LET first == CHOOSE x \in S : \A y \in S \ {x} :
                          IF seed = 0 THEN LexLess(x, y) ELSE LexLess(y, x)
         IN  <<first>> \o IterOrder(S \ {first}, seed)

\* ---- build_inverted_index ----

EmptyIndex == [t \in {} |-> <<>>]

IndexGet(idx, token) == IF token \in DOMAIN idx THEN idx[token] ELSE <<>>

MakeEntry(pair) ==
    [id |-> pair[1], raw |-> pair[2], norm |-> normalise_name(pair[2]),
     tokens |-> tokenise(normalise_name(pair[2]))]

IndexAdd(idx, entry) ==
    [t \in DOMAIN idx \cup entry.tokens |->
        IF t \in entry.tokens THEN Append(IndexGet(idx, t), entry) ELSE idx[t]]

RECURSIVE BuildFrom(_, _, _, _)
BuildFrom(names, i, idx, ents) ==
    IF i > Len(names) THEN [index |-> idx, entries |-> ents]
    ELSE BuildFrom(names, i + 1, IndexAdd(idx, MakeEntry(names[i])),
                   Append(ents, MakeEntry(names[i])))

build_inverted_index(names) == BuildFrom(names, 1, EmptyIndex, <<>>)

\* ---- find_matches ----

One == Frac(1, 1)

ScoreLess(a, b) == a.num * b.den < b.num * a.den

\* every candidate that shares a token is kept, whatever the threshold
AtLeast_Mut(score, threshold) == score.num > 0

\* score >= threshold, the threshold in hundredths
AtLeast(score, threshold) == score.num * 100 >= threshold * score.den

\* the entry keeps what the index stored of it, not the raw name
IsExact_Mut(entry, norm_query) == entry.raw = norm_query

IsExact(entry, norm_query) == entry.norm = norm_query

\* candidate_map / candidate_scores after the entries of one index list:
\* the first entry met for an entity id is kept and scored
RECURSIVE GatherEntries(_, _, _)
GatherEntries(list, query_tokens, cands) ==
    IF list = <<>> THEN cands
    ELSE LET entry == Head(list)
             seen  == \E i \in 1..Len(cands) : cands[i].id = entry.id
             cand  == [id |-> entry.id, raw |-> entry.raw,
                       score |-> jaccard_similarity(query_tokens, entry.tokens)]
         IN  GatherEntries(Tail(list), query_tokens,
                           IF seen THEN cands ELSE Append(cands, cand))

RECURSIVE GatherTokens(_, _, _, _)
GatherTokens(order, idx, query_tokens, cands) ==
    IF order = <<>> THEN cands
    ELSE GatherTokens(Tail(order), idx, query_tokens,
                      GatherEntries(IndexGet(idx, Head(order)), query_tokens, cands))

\* list.sort(key=score, reverse=True) is stable: equal scores keep their order
\* (x stood before every element of s)
RECURSIVE InsertByScore(_, _)
InsertByScore(x, s) ==
    IF s = <<>> THEN <<x>>
    ELSE IF ~ScoreLess(x.score, Head(s).score) THEN <<x>> \o s
    ELSE <<Head(s)>> \o InsertByScore(x, Tail(s))

RECURSIVE SortByScore(_)
SortByScore(s) ==
    IF s = <<>> THEN <<>>
    ELSE InsertByScore(Head(s), SortByScore(Tail(s)))

KeepOrder_Mut(s) == s

SortResults(s) == SortByScore(s)

\* results[:top_k] for top_k >= 0
Cut(s, top_k) == SubSeq(s, 1, Min(top_k, Len(s)))

\* the returned list, and the candidates a Jaccard score was computed for
find_matches(query_name, idx, ents, threshold, top_k, seed) ==
    LET norm_query   == normalise_name(query_name)
        query_tokens == tokenise(norm_query)
        exact        == {i \in 1..Len(ents) : IsExact(ents[i], norm_query)}
        first        == CHOOSE i \in exact : \A j \in exact : i <= j
        cands        == GatherTokens(IterOrder(query_tokens, seed), idx, query_tokens, <<>>)
        Passes(c)    == AtLeast(c.score, threshold)
    IN  IF query_tokens = {} THEN [result |-> <<>>, scored |-> <<>>]
        ELSE IF exact # {}
        THEN [result |-> <<[id |-> ents[first].id, raw |-> ents[first].raw, score |-> One]>>,
              scored |-> <<>>]
        ELSE [result |-> Cut(SortResults(SelectSeq(cands, Passes)), top_k),
              scored |-> cands]

\* ---- the matching run ----

BuildIndex ==
    /\ mpc = "start"
    /\ index' = build_inverted_index(names_with_ids).index
    /\ entries' = build_inverted_index(names_with_ids).entries
    /\ mpc' = "ready"
    /\ UNCHANGED <<names_with_ids, hashseed, call, result, scored, again>>

FindMatches(q, threshold, top_k) ==
    /\ mpc = "ready"
    /\ LET r == find_matches(q, index, entries, threshold, top_k, hashseed)
       IN  /\ result' = r.result
           /\ scored' = r.scored
    /\ call' = [query |-> q, threshold |-> threshold, top_k |-> top_k]
    /\ mpc' = "called"
    /\ UNCHANGED <<names_with_ids, entries, index, hashseed, again>>

\* a second run of the program on the same input: a new process, with its own
\* hash seed, builds the index again from the same list
Restart ==
    /\ mpc = "called"
    /\ hashseed' \in HashSeeds
    /\ index' = build_inverted_index(names_with_ids).index
    /\ entries' = build_inverted_index(names_with_ids).entries
    /\ mpc' = "restarted"
    /\ UNCHANGED <<names_with_ids, call, result, scored, again>>

\* the same call once more
FindAgain ==
    /\ mpc \in {"called", "restarted"}
    /\ again' = find_matches(call.query, index, entries, call.threshold,
                             call.top_k, hashseed).result
    /\ mpc' = "done"
    /\ UNCHANGED <<names_with_ids, entries, index, hashseed, call, result, scored>>

InitMatch ==
    /\ IdleScore
    /\ IdleShell
    /\ IdleBond
    /\ IdleRun
    /\ IdleDb
    /\ IdleJobs
    /\ artifacts = FALSE
    /\ IdleVendor
    /\ names_with_ids \in SeqsUpTo(EntityIds \X EntryNames, MaxEntries)
    /\ hashseed \in HashSeeds
    /\ entries = <<>>
    /\ index = EmptyIndex
    /\ mpc = "start"
    /\ call = NoCall
    /\ result = <<>>
    /\ scored = <<>>
    /\ again = <<>>

NextMatch ==
    \/ BuildIndex /\ UNCHANGED <<scoreVars, vendorVars, shellVars, bondVars, runVars, dbVars, jobVars>>
    \/ \E q \in QueryNames, threshold \in Thresholds, top_k \in TopKs :
           FindMatches(q, threshold, top_k) /\ UNCHANGED <<scoreVars, vendorVars, shellVars, bondVars, runVars, dbVars, jobVars>>
    \/ Restart /\ UNCHANGED <<scoreVars, vendorVars, shellVars, bondVars, runVars, dbVars, jobVars>>
    \/ FindAgain /\ UNCHANGED <<scoreVars, vendorVars, shellVars, bondVars, runVars, dbVars, jobVars>>

SpecMatch == InitMatch /\ [][NextMatch]_vars

----------------------------------------------------------------------------
(* Claims on entity matching *)

Called == mpc \in {"called", "restarted", "done"}

NormQuery == normalise_name(call.query)

ExactEntryExists == \E i \in 1..Len(entries) : entries[i].norm = NormQuery

FirstExact == CHOOSE i \in 1..Len(entries) :
                  /\ entries[i].norm = NormQuery
                  /\ \A j \in 1..(i - 1) : entries[j].norm # NormQuery

\* C8 as stated: whenever some indexed entry's normalized string equals the
\* query's normalized string, find_matches returns exactly one candidate, with
\* score 1.0, for every threshold and every top_k, and scores no other entry
C8_ExactAlwaysOne ==
    (Called /\ ExactEntryExists) =>
        /\ Len(result) = 1
        /\ result[1].score = One
        /\ scored = <<>>

\* C8 amended: when the query has at least one token (of two or more characters)
\* and some entry's normalized string equals the query's, find_matches returns
\* exactly the first such entry with score 1.0, for every threshold and top_k,
\* and computes no Jaccard score; when the query has no token it returns the
\* empty list, an entry with the same normalized string notwithstanding
C8_ExactShortCircuit ==
    Called =>
        /\ (ExactEntryExists /\ tokenise(NormQuery) # {}) =>
               /\ result = <<[id |-> entries[FirstExact].id,
                              raw |-> entries[FirstExact].raw, score |-> One]>>
               /\ scored = <<>>
        /\ tokenise(NormQuery) = {} => (result = <<>> /\ scored = <<>>)

\* C8 witness: two entries, the query's raw name differs from the matching
\* entry's, top_k is 0 and still the one exact candidate is returned
C8_Witness ==
    /\ Called
    /\ Len(entries) = 2
    /\ call.query = Name_ABPrivateLimited
    /\ call.top_k = 0
    /\ entries[2].raw = Name_ABPvtLtd
    /\ entries[1].raw = Name_ab_ef
    /\ Len(result) = 1
    /\ result[1].score = One
    /\ result[1].raw = Name_ABPvtLtd

\* C9: two calls of find_matches with the same query, the same index and entries,
\* the same threshold and the same top_k return the same list, order of ties and
\* the choice made by the top_k cut included
C9_SameInputsSameResult ==
    mpc = "done" => again = result

Qualifying == {i \in 1..Len(scored) : AtLeast(scored[i].score, call.threshold)}

\* C10: when no entry's normalized string equals the query's, every returned
\* candidate has threshold <= score and 0 <= score <= 1, the list is in
\* non-increasing score order, it has min(top_k, number of qualifying candidates)
\* elements, each a scored candidate, and no qualifying candidate left out has a
\* higher score than a returned one (top_k >= 0)
C10_FilteredSortedCut ==
    (Called /\ ~ExactEntryExists) =>
        /\ \A i \in 1..Len(result) :
               /\ AtLeast(result[i].score, call.threshold)
               /\ result[i].score.num >= 0
               /\ result[i].score.num <= result[i].score.den
               /\ \E j \in Qualifying : scored[j] = result[i]
        /\ \A i \in 1..(Len(result) - 1) : ~ScoreLess(result[i].score, result[i + 1].score)
        /\ Len(result) = Min(call.top_k, Cardinality(Qualifying))
        /\ \A j \in Qualifying :
               (\A i \in 1..Len(result) : result[i] # scored[j]) =>
                   \A i \in 1..Len(result) : ~ScoreLess(result[i].score, scored[j].score)

\* C10 witness: two candidates qualify, the one scored second has the higher
\* score, and top_k = 1 keeps it alone
C10_Witness ==
    /\ Called /\ ~ExactEntryExists
    /\ call.top_k = 1
    /\ Len(scored) = 2
    /\ Qualifying = {1, 2}
    /\ ScoreLess(scored[1].score, scored[2].score)
    /\ result = <<scored[2]>>

QueryTokens == tokenise(NormQuery)

\* no indexed entry's token set has Jaccard similarity >= threshold with the
\* query's (the similarity is 0 when either set is empty)
NoEntryReaches ==
    \A i \in 1..Len(entries) :
        LET inter == IF QueryTokens = {} \/ entries[i].tokens = {} THEN 0
                     ELSE Cardinality(QueryTokens \cap entries[i].tokens)
            union == IF QueryTokens = {} \/ entries[i].tokens = {} THEN 1
                     ELSE Cardinality(QueryTokens \cup entries[i].tokens)
        IN  inter * 100 < call.threshold * union

\* C11: find_matches returns the empty list whenever the query's token set is
\* empty (a non-string, or only one-character and suffix words) and whenever no
\* indexed entry reaches the threshold; every call returns a list
C11_UnmatchedIsEmpty ==
    Called =>
        /\ result \in Seq([id : EntityIds, raw : EntryNames,
                           score : [num : 0..4, den : 1..4]])
        /\ (QueryTokens = {} \/ NoEntryReaches) => result = <<>>

\* C11 witness: the query shares a token with an indexed entry, which is scored
\* below the threshold, and the empty list is returned
C11_Witness ==
    /\ Called
    /\ QueryTokens # {}
    /\ call.threshold = 55
    /\ Len(scored) >= 1
    /\ NoEntryReaches
    /\ result = <<>>

\* C25: when no entry's normalized string equals the query's and threshold > 0,
\* every indexed entry sharing a token with the query is scored exactly once,
\* with the Jaccard similarity of the two token sets; each entity_id is in the
\* result at most once; and every indexed entry whose similarity is >= threshold
\* is in the result unless top_k cut the list
C25_IndexEqualsBruteForce ==
    (Called /\ QueryTokens # {} /\ ~ExactEntryExists /\ call.threshold > 0) =>
        /\ \A i \in 1..Len(entries) :
               entries[i].tokens \cap QueryTokens # {} =>
                   Cardinality({j \in 1..Len(scored) :
                                   /\ scored[j].id = entries[i].id
                                   /\ scored[j].raw = entries[i].raw
                                   /\ scored[j].score
                                          = jaccard_similarity(QueryTokens, entries[i].tokens)}) = 1
        /\ \A i, j \in 1..Len(result) : result[i].id = result[j].id => i = j
        /\ \A i \in 1..Len(entries) :
               AtLeast(jaccard_similarity(QueryTokens, entries[i].tokens), call.threshold) =>
                   \/ \E k \in 1..Len(result) :
                          result[k].id = entries[i].id /\ result[k].raw = entries[i].raw
                   \/ Len(result) = call.top_k

----------------------------------------------------------------------------
(* Company address network (company_risk_scorer.py).  An address is the     *)
(* tuple of its characters; centralities are kept in millionths (the code   *)
(* rounds them to six decimals).                                            *)

IsDigit(c) == \E i \in 1..10 : Digits[i] = c

IsLetter(c) == \E i \in 1..26 : LowerLetters[i] = c

\* \w on a lower-cased ASCII string
WordChar(c) == IsLetter(c) \/ IsDigit(c) \/ c = "_"

\* start positions of the matches of \b(\d{6})\b
PinStarts(s) ==
    {i \in 1..(Len(s) - 5) :
        /\ \A k \in 0..5 : IsDigit(s[i + k])
        /\ (i = 1 \/ ~WordChar(s[i - 1]))
        /\ (i + 5 = Len(s) \/ ~WordChar(s[i + 6]))}

\* re.search: the leftmost match, "" when there is none
Pincode(s) ==
    IF PinStarts(s) = {} THEN <<>>
    ELSE LET i == CHOOSE a \in PinStarts(s) : \A b \in PinStarts(s) : a <= b
         IN  SubSeq(s, i, i + 5)

\* str.replace(pat, ""): occurrences are removed left to right, without overlap
RECURSIVE RemoveFrom(_, _, _, _)
RemoveFrom(s, pat, i, acc) ==
    IF i > Len(s) THEN acc
    ELSE IF i + Len(pat) - 1 <= Len(s) /\ SubSeq(s, i, i + Len(pat) - 1) = pat
         THEN RemoveFrom(s, pat, i + Len(pat), acc)
         ELSE RemoveFrom(s, pat, i + 1, Append(acc, s[i]))

NOISE == <<<<"i", "n", "d", "i", "a">>, <<"c", "/", "o">>, <<"s", "/", "o">>, <<"d", "/", "o">>,
           <<"w", "/", "o">>, <<"n", "e", "a", "r">>, <<"o", "p", "p">>, <<"b", "e", "h", "i", "n", "d">>>>

RECURSIVE RemoveNoise(_, _)
RemoveNoise(s, k) ==
    IF k > Len(NOISE) THEN s
    ELSE RemoveNoise(RemoveFrom(s, NOISE[k], 1, <<>>), k + 1)

\* re.findall(r"[a-z]+", addr): the maximal runs of letters
RECURSIVE LetterRuns(_, _, _, _)
LetterRuns(s, i, cur, acc) ==
    IF i > Len(s) THEN (IF cur = <<>> THEN acc ELSE Append(acc, cur))
    ELSE IF IsLetter(s[i]) THEN LetterRuns(s, i + 1, Append(cur, s[i]), acc)
    ELSE LetterRuns(s, i + 1, <<>>, IF cur = <<>> THEN acc ELSE Append(acc, cur))

\* sorted(set): ascending in the order of str
RECURSIVE SortedTokens(_)
SortedTokens(S) ==
    IF S = {} THEN <<>>
    ELSE LET least == CHOOSE x \in S : \A y \in S \ {x} : LexLess(x, y)
         IN  <<least>> \o SortedTokens(S \ {least})

RECURSIVE JoinComma(_)
JoinComma(ws) ==
    IF ws = <<>> THEN <<>>
    ELSE IF Len(ws) = 1 THEN ws[1]
    ELSE ws[1] \o <<",">> \o JoinComma(Tail(ws))

normalise_address(addr) ==
    IF addr = NotAString THEN <<>>
    ELSE LET lowered    == [i \in 1..Len(addr) |-> LowerChar(addr[i])]
             tokens     == LetterRuns(RemoveNoise(lowered, 1), 1, <<>>, <<>>)
             sig_tokens == SortedTokens({tokens[i] : i \in {j \in 1..Len(tokens) :
                                                            Len(tokens[j]) > 3}})
         IN  Pincode(lowered) \o <<"|">>
                 \o JoinComma(SubSeq(sig_tokens, 1, Min(5, Len(sig_tokens))))

\* ---- addresses of the run ----

Addr_Pune == <<"P", "u", "n", "e", " ", "4", "1", "1", "0", "0", "1">>
Addr_PuneIndia == <<"P", "U", "N", "E", "-", "4", "1", "1", "0", "0", "1", " ", "I", "n", "d", "i", "a">>
Addr_Delhi == <<"O", "p", "p", " ", "P", "a", "r", "k", ",", " ", "D", "e", "l", "h", "i", " ", "1", "1", "0", "0", "0", "1">>
Addr_Goa == <<"G", "o", "a">>

MaxSame == 2
EdgeClusterMax == 50

\* numbers of rows per address: small clusters, and one cluster at and above
\* the edge limit
CompanyShapes ==
    [pune : 0..MaxSame, pune_india : 0..MaxSame, missing : 0..MaxSame, goa : 0..1,
     delhi : {0, 1, EdgeClusterMax, EdgeClusterMax + 1}]

\* the rows of the file; the CIN of a row is its number
CompanyFile(shape) ==
    LET addrs == Repeat(Addr_Pune, shape.pune) \o Repeat(Addr_Delhi, shape.delhi)
                     \o Repeat(Addr_PuneIndia, shape.pune_india)
                     \o Repeat(NotAString, shape.missing) \o Repeat(Addr_Goa, shape.goa)
    IN  [i \in 1..Len(addrs) |-> [CIN |-> i, Registered_Office_Address |-> addrs[i]]]

\* ---- score_companies: address clustering and network ----

\* line 91: the addr_key column
KeyAddresses ==
    /\ cpc = "loaded"
    /\ cdf' = [i \in 1..Len(companies) |->
                  [CIN |-> companies[i].CIN,
                   addr_key |-> normalise_address(companies[i].Registered_Office_Address)]]
    /\ cpc' = "keyed"
    /\ UNCHANGED <<companies, G>>

\* df["addr_key"].value_counts()
AddrCount(frame, k) == Cardinality({i \in 1..Len(frame) : frame[i].addr_key = k})

\* flagged only while the cluster is small enough to contribute edges
ClusterFlag_Mut(size) == Bit(size >= 3 /\ size <= EdgeClusterMax)

\* line 94
ClusterFlag(size) == Bit(size >= 3)

\* lines 92-94: cluster size and flag
ClusterAddresses ==
    /\ cpc = "keyed"
    /\ cdf' = [i \in 1..Len(cdf) |->
                  [CIN |-> cdf[i].CIN,
                   addr_key |-> cdf[i].addr_key,
                   address_cluster_size |-> AddrCount(cdf, cdf[i].addr_key),
                   address_cluster_flag |-> ClusterFlag(AddrCount(cdf, cdf[i].addr_key))]]
    /\ cpc' = "clustered"
    /\ UNCHANGED <<companies, G>>

\* groupby("addr_key")["CIN"].apply(list) over the rows with cluster size >= 2
ClusterCins(frame, k) ==
    {frame[i].CIN : i \in {j \in 1..Len(frame) :
                              frame[j].address_cluster_size >= 2 /\ frame[j].addr_key = k}}

\* the double loop over a cluster's list: every pair of its members
PairsOf(cins) == {{p[1], p[2]} : p \in {q \in cins \X cins : q[1] < q[2]}}

\* clusters of exactly EdgeClusterMax members are skipped as well
SameAddressEdges_Mut(frame) ==
    UNION {PairsOf(ClusterCins(frame, k)) :
              k \in {key \in {frame[i].addr_key : i \in 1..Len(frame)} :
                        /\ Cardinality(ClusterCins(frame, key)) > 1
                        /\ Cardinality(ClusterCins(frame, key)) < EdgeClusterMax}}

SameAddressEdges(frame) ==
    UNION {PairsOf(ClusterCins(frame, k)) :
              k \in {key \in {frame[i].addr_key : i \in 1..Len(frame)} :
                        /\ Cardinality(ClusterCins(frame, key)) > 1
                        /\ Cardinality(ClusterCins(frame, key)) <= EdgeClusterMax}}

\* lines 124-134
BuildNetwork ==
    /\ cpc = "clustered"
    /\ G' = [nodes |-> {cdf[i].CIN : i \in 1..Len(cdf)}, edges |-> SameAddressEdges(cdf)]
    /\ cpc' = "network"
    /\ UNCHANGED <<companies, cdf>>

Degree(graph, n) == Cardinality({e \in graph.edges : n \in e})

\* nx.degree_centrality, rounded to six decimals: a graph of at most one node
\* gives its node the centrality 1
DegreeCentrality(graph, n) ==
    IF Cardinality(graph.nodes) <= 1 THEN 1000000
    ELSE RoundDiv(Degree(graph, n) * 1000000, Cardinality(graph.nodes) - 1)

\* lines 136-137
ComputeCentrality ==
    /\ cpc = "network"
    /\ cdf' = [i \in 1..Len(cdf) |->
                  [CIN |-> cdf[i].CIN,
                   addr_key |-> cdf[i].addr_key,
                   address_cluster_size |-> cdf[i].address_cluster_size,
                   address_cluster_flag |-> cdf[i].address_cluster_flag,
                   degree_centrality |-> DegreeCentrality(G, cdf[i].CIN)]]
    /\ cpc' = "centrality"
    /\ UNCHANGED <<companies, G>>

\* df["degree_centrality"].max(); of an empty column it is NaN, not > 0
MaxCent(frame) ==
    IF Len(frame) = 0 THEN 0
    ELSE CHOOSE m \in {frame[i].degree_centrality : i \in 1..Len(frame)} :
             \A i \in 1..Len(frame) : frame[i].degree_centrality <= m

\* lines 139-142
NormaliseCentrality ==
    /\ cpc = "centrality"
    /\ cdf' = [i \in 1..Len(cdf) |->
                  [CIN |-> cdf[i].CIN,
                   addr_key |-> cdf[i].addr_key,
                   address_cluster_size |-> cdf[i].address_cluster_size,
                   address_cluster_flag |-> cdf[i].address_cluster_flag,
                   degree_centrality |-> cdf[i].degree_centrality,
                   degree_centrality_score |->
                       IF MaxCent(cdf) > 0
                       THEN Frac(cdf[i].degree_centrality, MaxCent(cdf))
                       ELSE Frac(0, 1)]]
    /\ cpc' = "scored"
    /\ UNCHANGED <<companies, G>>

InitShell ==
    /\ IdleScore
    /\ artifacts = FALSE
    /\ IdleVendor
    /\ IdleMatch
    /\ IdleBond
    /\ IdleRun
    /\ IdleDb
    /\ IdleJobs
    /\ cpc = "loaded"
    /\ companies \in {CompanyFile(shape) : shape \in CompanyShapes}
    /\ cdf = <<>>
    /\ G = NoGraph

NextShell ==
    \/ KeyAddresses /\ UNCHANGED <<scoreVars, vendorVars, matchVars, bondVars, runVars, dbVars, jobVars>>
    \/ ClusterAddresses /\ UNCHANGED <<scoreVars, vendorVars, matchVars, bondVars, runVars, dbVars, jobVars>>
    \/ BuildNetwork /\ UNCHANGED <<scoreVars, vendorVars, matchVars, bondVars, runVars, dbVars, jobVars>>
    \/ ComputeCentrality /\ UNCHANGED <<scoreVars, vendorVars, matchVars, bondVars, runVars, dbVars, jobVars>>
    \/ NormaliseCentrality /\ UNCHANGED <<scoreVars, vendorVars, matchVars, bondVars, runVars, dbVars, jobVars>>

SpecShell == InitShell /\ [][NextShell]_vars

----------------------------------------------------------------------------
(* Claims on the company address network *)

Clustered == cpc \in {"clustered", "network", "centrality", "scored"}

Networked == cpc \in {"network", "centrality", "scored"}

\* the number of rows whose address key is that of row i
SharingKey(i) == Cardinality({j \in 1..Len(cdf) : cdf[j].addr_key = cdf[i].addr_key})

\* C12: address_cluster_flag is 1 iff the number of entities sharing the entity's
\* address key is >= 3, and address_cluster_size is that number; members of a
\* cluster of more than 50 are flagged with the full size and have no edge
C12_FlagIffThree ==
    Clustered =>
        \A i \in 1..Len(cdf) :
            /\ cdf[i].address_cluster_size = SharingKey(i)
            /\ (cdf[i].address_cluster_flag = 1 <=> SharingKey(i) >= 3)
            /\ cdf[i].address_cluster_flag \in {0, 1}
            /\ (Networked /\ SharingKey(i) > 50) =>
                   /\ cdf[i].address_cluster_flag = 1
                   /\ Degree(G, cdf[i].CIN) = 0

\* C12 witness: a member of a cluster of 51 is flagged, carries size 51 and has
\* no edge, while another entity of the same run has an edge
C12_Witness ==
    /\ cpc = "scored"
    /\ \E i \in 1..Len(cdf) :
           /\ cdf[i].address_cluster_size = 51
           /\ cdf[i].address_cluster_flag = 1
           /\ Degree(G, cdf[i].CIN) = 0
    /\ G.edges # {}

\* C13: two distinct entities are joined by an edge iff they share an address key
\* whose cluster has 2 to 50 members; every edge joins two distinct entities
C13_EdgeIffSmallCluster ==
    Networked =>
        /\ \A e \in G.edges : e \subseteq G.nodes /\ Cardinality(e) = 2
        /\ \A i, j \in 1..Len(cdf) :
               i # j =>
                   ({cdf[i].CIN, cdf[j].CIN} \in G.edges
                        <=> /\ cdf[i].addr_key = cdf[j].addr_key
                            /\ SharingKey(i) >= 2
                            /\ SharingKey(i) <= 50)

\* C13 witness: three entities on one key form a triangle and a cluster of
\* exactly 50 is a complete subgraph
C13_Witness ==
    /\ Networked
    /\ \E i \in 1..Len(cdf) : SharingKey(i) = 3 /\ Degree(G, cdf[i].CIN) = 2
    /\ \E i \in 1..Len(cdf) : SharingKey(i) = 50 /\ Degree(G, cdf[i].CIN) = 49
    /\ Cardinality(G.edges) = 3 + 1225

\* C14: degree centrality is degree / (number of entities - 1), the normalized
\* score is centrality / maximum centrality and lies in [0,1], and when the
\* graph has no edges every normalized score is 0 - for every entity set, a
\* single entity included
C14_NormalisedCentrality ==
    cpc = "scored" =>
        \A i \in 1..Len(cdf) :
            /\ Len(cdf) > 1 =>
                   cdf[i].degree_centrality =
                       RoundDiv(Degree(G, cdf[i].CIN) * 1000000, Len(cdf) - 1)
            /\ cdf[i].degree_centrality_score.num >= 0
            /\ cdf[i].degree_centrality_score.num <= cdf[i].degree_centrality_score.den
            /\ G.edges # {} =>
                   cdf[i].degree_centrality_score
                       = Frac(cdf[i].degree_centrality, MaxCent(cdf))
            /\ G.edges = {} => cdf[i].degree_centrality_score.num = 0

\* C28: an entity whose address is missing, or has neither a pincode nor an
\* alphabetic token longer than 3 characters, is in no cluster: its
\* address_cluster_size is 1, its address_cluster_flag 0, and it has no edge,
\* however many other entities lack an address
C28_NoAddressNoCluster ==
    Networked =>
        \A i \in 1..Len(cdf) :
            companies[i].Registered_Office_Address \in {NotAString, Addr_Goa} =>
                /\ cdf[i].address_cluster_size = 1
                /\ cdf[i].address_cluster_flag = 0
                /\ Degree(G, cdf[i].CIN) = 0

-----------------------------------------------------------------------------
(* Political connection scores (compute_political_scores)

   total_value is in rupees.  value_score and diversity_score are exact
   fractions [num, den]; political_score is in hundredths. *)

MaxFlows == 3
MaxP2C == 2

\* rows of the bond-flow table
BondRows == [purchaser_name : {"p1", "p2"}, party_name : {"A", "B"}, total_value : {0, 1000}]

\* rows of the purchaser-to-company match table
P2CRows == [purchaser_name : {"p1", "p2"}, matched_cin : Cins]

\* groupby("purchaser_name").agg(...): one record per purchaser present, in
\* sorted key order; party_list keeps the order of first appearance
PurchaserStats(flows) ==
    LET names == <<"p1", "p2">>
        rowsOf(p) == SelectSeq(flows, LAMBDA r : r.purchaser_name = p)
        present == SelectSeq(names, LAMBDA p : rowsOf(p) /= <<>>)
        total(rows) == SumOver(DOMAIN rows, [i \in DOMAIN rows |-> rows[i].total_value])
        firsts(rows) == SelectSeq([i \in DOMAIN rows |-> i],
                           LAMBDA i : \A j \in 1..(i - 1) : rows[j].party_name /= rows[i].party_name)
        partyList(rows) == [k \in DOMAIN firsts(rows) |-> rows[firsts(rows)[k]].party_name]
    IN  [k \in DOMAIN present |->
            [purchaser_name   |-> present[k],
             parties_funded   |-> Len(partyList(rowsOf(present[k]))),
             total_bond_value |-> total(rowsOf(present[k])),
             party_list       |-> partyList(rowsOf(present[k]))]]

\* total_bond_value / (max_value + 1) * 60
ValueScore(total_bond_value, max_value) == Frac(total_bond_value * 60, max_value + 1)

\* parties_funded / (max_parties + 1) * 40
DiversityScore(parties_funded, max_parties) == Frac(parties_funded * 40, max_parties + 1)

\* (value_score + diversity_score).clip(0, 100).round(2), in hundredths
PoliticalScore(value_score, diversity_score) ==
    RoundDiv(100 * Clip(value_score.num * diversity_score.den
                            + diversity_score.num * value_score.den,
                        0, 100 * value_score.den * diversity_score.den),
             value_score.den * diversity_score.den)

\* the three score columns added to purchaser_stats
ScoredStats(stats) ==
    LET max_value == CHOOSE v \in {stats[i].total_bond_value : i \in DOMAIN stats} :
                         \A i \in DOMAIN stats : stats[i].total_bond_value <= v
        max_parties == CHOOSE n \in {stats[i].parties_funded : i \in DOMAIN stats} :
                           \A i \in DOMAIN stats : stats[i].parties_funded <= n
    IN  [i \in DOMAIN stats |->
            LET value_score == ValueScore(stats[i].total_bond_value, max_value)
                diversity_score == DiversityScore(stats[i].parties_funded, max_parties)
            IN  [purchaser_name   |-> stats[i].purchaser_name,
                 parties_funded   |-> stats[i].parties_funded,
                 total_bond_value |-> stats[i].total_bond_value,
                 party_list       |-> stats[i].party_list,
                 value_score      |-> value_score,
                 diversity_score  |-> diversity_score,
                 political_score  |-> PoliticalScore(value_score, diversity_score)]]

\* the connections list: one entry per purchaser and party it funded (the
\* display label derived from the value is left out)
Connections(flows, stats) ==
    LET partyValue(p, party) ==
            LET rows == SelectSeq(flows, LAMBDA r : r.purchaser_name = p /\ r.party_name = party)
            IN  SumOver(DOMAIN rows, [i \in DOMAIN rows |-> rows[i].total_value])
        ofRow(s) == [k \in DOMAIN s.party_list |->
                        [source |-> s.purchaser_name, target |-> s.party_list[k],
                         type |-> "electoral_bond",
                         value |-> partyValue(s.purchaser_name, s.party_list[k])]]
    IN  IF Len(stats) = 0 THEN <<>>
        ELSE IF Len(stats) = 1 THEN ofRow(stats[1])
        ELSE ofRow(stats[1]) \o ofRow(stats[2])

\* the inner merge with the match table; a CIN keeps the first row with its
\* highest political_score (a later row replaces it only when strictly higher)
PoliticalByCin(p2c, stats) ==
    LET statOf(p) == CHOOSE i \in DOMAIN stats : stats[i].purchaser_name = p
        merged == SelectSeq(p2c, LAMBDA r :
                      \E i \in DOMAIN stats : stats[i].purchaser_name = r.purchaser_name)
        score(i) == stats[statOf(merged[i].purchaser_name)].political_score
        best(cin) == CHOOSE i \in DOMAIN merged :
                         /\ merged[i].matched_cin = cin
                         /\ \A j \in DOMAIN merged :
                                merged[j].matched_cin = cin
                                    => \/ score(j) < score(i)
                                       \/ score(j) = score(i) /\ j >= i
    IN  [cin \in {merged[i].matched_cin : i \in DOMAIN merged} |->
            LET s == stats[statOf(merged[best(cin)].purchaser_name)]
            IN  [political_score  |-> s.political_score,
                 parties_funded   |-> s.parties_funded,
                 total_bond_value |-> s.total_bond_value,
                 purchaser_name   |-> s.purchaser_name]]

\* compute_political_scores(bond_flows, entity_p2c): an empty bond-flow frame
\* returns one empty frame; otherwise the triple
\* (purchaser_stats, connections, political_by_cin)
ComputePoliticalScores ==
    /\ bpc = "loaded"
    /\ IF bond_flows = <<>>
       THEN /\ bpc' = "empty_frame"
            /\ UNCHANGED <<purchaser_stats, connections, political_by_cin>>
       ELSE /\ purchaser_stats' = ScoredStats(PurchaserStats(bond_flows))
            /\ connections' = Connections(bond_flows, purchaser_stats')
            /\ political_by_cin' = PoliticalByCin(entity_p2c, purchaser_stats')
            /\ bpc' = "scored"
    /\ UNCHANGED <<bond_flows, entity_p2c>>

InitPolitical ==
    /\ IdleScore
    /\ artifacts = FALSE
    /\ IdleVendor
    /\ IdleMatch
    /\ IdleShell
    /\ IdleRun
    /\ IdleDb
    /\ IdleJobs
    /\ bpc = "loaded"
    /\ bond_flows \in SeqsUpTo(BondRows, MaxFlows)
    /\ entity_p2c \in SeqsUpTo(P2CRows, MaxP2C)
    /\ purchaser_stats = <<>>
    /\ connections = <<>>
    /\ political_by_cin = <<>>

NextPolitical ==
    ComputePoliticalScores /\ UNCHANGED <<scoreVars, vendorVars, matchVars, shellVars, runVars, dbVars, jobVars>>

SpecPolitical == InitPolitical /\ [][NextPolitical]_vars

-----------------------------------------------------------------------------
(* Claims on the political connection scores *)

\* C20: political_score is value_score + diversity_score clipped to [0,100]
\* and rounded, where value_score is the purchaser's total donation value
\* divided by the largest total, times 60, and diversity_score is its number
\* of distinct parties divided by the largest number, times 40; so the
\* purchaser with the largest total has value_score exactly 60 and the one
\* funding the most parties has diversity_score exactly 40.
C20_NormalisedByMaximum ==
    bpc = "scored" =>
        \A i \in DOMAIN purchaser_stats :
            LET s == purchaser_stats[i]
                largest == \A j \in DOMAIN purchaser_stats :
                               purchaser_stats[j].total_bond_value <= s.total_bond_value
                most == \A j \in DOMAIN purchaser_stats :
                            purchaser_stats[j].parties_funded <= s.parties_funded
            IN  /\ largest => s.value_score = Frac(60, 1)
                /\ most => s.diversity_score = Frac(40, 1)
                /\ s.political_score = PoliticalScore(s.value_score, s.diversity_score)

-----------------------------------------------------------------------------
(* A whole run of build_vendor_profiles: the tables are loaded, the political
   scores computed, and the profiles dict filled by the company loop and then
   the buyer loop.  A file that is absent is read as the empty frame. *)

MaxCompanies == 2
MaxRunFlows == 1
MaxRunP2C == 1

\* rows of the company risk file
RunCompanyRows == [cin : Cins, shell_risk_score : {2000}, financials_score : {2500}]

\* the result of compute_bid_pattern_scores: one score per buyer with a tender
RunBuyerStats == UNION {[S -> {2500, 6000}] : S \in SUBSET VendorBuyers}

\* lines 209-232: read_csv of every table.  The company and the procurement
\* file are read without a handler: when one of them is absent the run ends
\* with FileNotFoundError.  For the two match tables and the bond-flow table
\* FileNotFoundError gives pd.DataFrame(), the empty table.
LoadTables ==
    /\ rpc = "start"
    /\ \/ /\ rpc' = "FileNotFoundError"
          /\ UNCHANGED <<company_df, buyer_stats, entity_b2c, entity_p2c, bond_flows>>
       \/ /\ company_df' \in SeqsUpTo(RunCompanyRows, MaxCompanies)
          /\ buyer_stats' \in RunBuyerStats
          /\ entity_b2c' \in SeqsUpTo(MatchRows, MaxMatches)
          /\ entity_p2c' \in SeqsUpTo(P2CRows, MaxRunP2C)
          /\ bond_flows' \in SeqsUpTo(BondRows, MaxRunFlows)
          /\ rpc' = "loaded"
    /\ UNCHANGED <<vpc, company, buyer_i, profile, bpc, purchaser_stats, connections,
                   political_by_cin, profiles>>

\* political_stats, political_connections, political_by_cin =
\*     compute_political_scores(bond_flows, entity_p2c)
\* the one frame returned for an empty bond-flow table has five columns and
\* cannot be unpacked into three names: ValueError
UnpackPoliticalScores ==
    /\ rpc = "loaded"
    /\ IF bond_flows = <<>>
       THEN /\ rpc' = "ValueError"
            /\ UNCHANGED <<purchaser_stats, connections, political_by_cin>>
       ELSE /\ purchaser_stats' = ScoredStats(PurchaserStats(bond_flows))
            /\ connections' = Connections(bond_flows, purchaser_stats')
            /\ political_by_cin' = PoliticalByCin(entity_p2c, purchaser_stats')
            /\ rpc' = "scored"
    /\ UNCHANGED <<vendorVars, bpc, bond_flows, entity_p2c, company_df, profiles>>

\* financial_scores is indexed by CIN: for a CIN that two rows carry,
\* financial_scores.loc[cin, "financials_score"] is a Series of two values and
\* float() of it raises TypeError.  The rows in front of the first such row.
RowsBeforeTypeError(rows) ==
    LET twice(i) == \E j \in DOMAIN rows : j # i /\ rows[j].cin = rows[i].cin
        ok == {n \in 0..Len(rows) : \A i \in 1..n : ~twice(i)}
    IN  SubSeq(rows, 1, CHOOSE n \in ok : \A k \in ok : k <= n)

\* the company loop: profiles[cin] is written for every row the loop reaches
CompanyProfiles(rows, b2c, stats, by_cin) ==
    LET done == RowsBeforeTypeError(rows)
        rowOf(i) == [cin |-> done[i].cin,
                     shell_risk_score |-> done[i].shell_risk_score,
                     political_score |-> IF done[i].cin \in DOMAIN by_cin
                                         THEN by_cin[done[i].cin].political_score ELSE 0,
                     financials_score |-> done[i].financials_score]
    IN  [cin \in {done[i].cin : i \in DOMAIN done} |->
            CompanyProfile(rowOf(CHOOSE i \in DOMAIN done : done[i].cin = cin), b2c, stats)]

\* the buyer loop: a BUYER_ profile for every buyer of buyer_stats that has no
\* row in the match table
BuyerProfiles(stats, b2c) ==
    LET unmatched == {b \in DOMAIN stats : ~AlreadyMatched(b, b2c)}
    IN  [id \in {BuyerEntityId(b) : b \in unmatched} |->
            LET b == CHOOSE x \in unmatched : BuyerEntityId(x) = id
            IN  BuyerProfile(b, stats[b])]

\* lines 239-411: both loops, then vendor_profiles.json is written (profiles),
\* then the summary frame is sorted by composite_risk_score: a frame without
\* rows has no such column, KeyError.  A TypeError of the company loop ends
\* the run before anything is written.
WriteProfiles ==
    /\ rpc = "scored"
    /\ LET cp  == CompanyProfiles(company_df, entity_b2c, buyer_stats, political_by_cin)
           bp  == BuyerProfiles(buyer_stats, entity_b2c)
           all == [id \in DOMAIN cp \cup DOMAIN bp |->
                      IF id \in DOMAIN bp THEN bp[id] ELSE cp[id]]
       IN  IF RowsBeforeTypeError(company_df) # company_df
           THEN profiles' = <<>> /\ rpc' = "TypeError"
           ELSE /\ profiles' = all
                /\ rpc' = IF DOMAIN all = {} THEN "KeyError" ELSE "done"
    /\ UNCHANGED <<vendorVars, bondVars, company_df>>

InitRun ==
    /\ IdleScore
    /\ artifacts = FALSE
    /\ IdleVendor
    /\ IdleMatch
    /\ IdleShell
    /\ IdleBond
    /\ IdleDb
    /\ IdleJobs
    /\ rpc = "start"
    /\ company_df = <<>>
    /\ profiles = <<>>

NextRun ==
    \/ LoadTables /\ UNCHANGED <<scoreVars, matchVars, shellVars, dbVars, jobVars>>
    \/ UnpackPoliticalScores /\ UNCHANGED <<scoreVars, matchVars, shellVars, dbVars, jobVars>>
    \/ WriteProfiles /\ UNCHANGED <<scoreVars, matchVars, shellVars, dbVars, jobVars>>

SpecRun == InitRun /\ [][NextRun]_vars

-----------------------------------------------------------------------------
(* Claims on the whole run *)

\* C21: an absent or empty input table (the match tables, the bond-flow table)
\* never makes the run raise: the run ends with a profile for every company,
\* and the sub-score that depends on the empty table is 0
C21_MissingInputNotFatal ==
    /\ rpc # "ValueError"
    /\ rpc = "done" =>
           \A i \in DOMAIN company_df :
               /\ company_df[i].cin \in DOMAIN profiles
               /\ entity_b2c = <<>> => profiles[company_df[i].cin].bid_pattern = 0
               /\ (entity_p2c = <<>> \/ bond_flows = <<>>) =>
                      profiles[company_df[i].cin].political = 0

\* the profile id carries the bid pattern of buyer b: b's own BUYER_ profile,
\* or the profile of a company b has a match row for
Represents(id, b) ==
    /\ profiles[id].bid_pattern = buyer_stats[b]
    /\ \/ id = BuyerEntityId(b)
       \/ \E i \in DOMAIN entity_b2c :
              entity_b2c[i].buyer_name = b /\ entity_b2c[i].matched_cin = id

\* C27: after the run every buyer of buyer_stats is represented by exactly one
\* profile whose bid_pattern sub-score is the buyer's bid_pattern_score
C27_EveryBuyerOnce ==
    rpc = "done" =>
        \A b \in DOMAIN buyer_stats :
            Cardinality({id \in DOMAIN profiles : Represents(id, b)}) = 1

-----------------------------------------------------------------------------
(* Stored tables: migrate_all_to_neon.py, load_all_to_neon.py,              *)
(* populate_risk_alerts.py and the tender worker of app_v3_neon.py.  Every  *)
(* action is one committed transaction of one of the four programs; the     *)
(* transactions of different programs interleave.                           *)

MaxFileRows == 2
MaxOps == 3

\* rows of procurement_risk_scores.csv; risk_score in hundredths, amount in
\* thousands of rupees
TenderFileRows == {
    [ocid |-> "o1", buyer_name |-> "b1", category |-> "c1", amount |-> 5,
     risk_score |-> 2273, flag_single_bidder |-> 1],
    [ocid |-> "o1", buyer_name |-> "b1", category |-> "c1", amount |-> 50,
     risk_score |-> 5000, flag_single_bidder |-> 0],
    [ocid |-> "o2", buyer_name |-> "b2", category |-> "c1", amount |-> 50,
     risk_score |-> 0, flag_single_bidder |-> 0]}

\* rows of company_risk_table.csv; shell_risk_score in hundredths
CompanyFileRows == {
    [CIN |-> "CIN1", CompanyName |-> "Acme", shell_risk_score |-> 3000, address_cluster_flag |-> 1],
    [CIN |-> "CIN1", CompanyName |-> "ACME", shell_risk_score |-> 1000, address_cluster_flag |-> 0],
    [CIN |-> "CIN2", CompanyName |-> "ACME", shell_risk_score |-> 6000, address_cluster_flag |-> 0]}

\* items of vendor_profiles.json, a dict: its keys are distinct
VendorFileRows == {[entity_id |-> "CIN1", composite_risk_score |-> 4000]}

\* rows of political_bond_flows.csv; total_value in rupees
BondFileRows == {
    [purchaser_name |-> "p1", party_name |-> "A", total_value |-> 5000000, total_bonds |-> 1],
    [purchaser_name |-> "p1", party_name |-> "A", total_value |-> 10500000, total_bonds |-> 2],
    [purchaser_name |-> "p1", party_name |-> "B", total_value |-> 200000000, total_bonds |-> 2]}

\* the input artifacts: at most MaxFileRows rows in all; an absent file and a
\* file without rows load the same: nothing
FileSets ==
    {f \in [procurement     : SeqsUpTo(TenderFileRows, MaxFileRows),
            companies       : SeqsUpTo(CompanyFileRows, MaxFileRows),
            vendor_profiles : SeqsUpTo(VendorFileRows, 1),
            bond_flows      : SeqsUpTo(BondFileRows, MaxFileRows)] :
        Len(f.procurement) + Len(f.companies) + Len(f.vendor_profiles)
            + Len(f.bond_flows) <= MaxFileRows}

\* download.csv and redemption.csv as load_all_to_neon finds them: without rows,
\* or with one bond bought by p1 and encashed by party A
DownloadFiles == {<<>>, <<[purchaser_name |-> "p1", bond |-> 1, issue_branch_code |-> "br"]>>}
RedemptionFiles == {<<>>, <<[party_name |-> "A", bond |-> 1, pay_branch_code |-> "br",
                            account_no |-> "ac"]>>}

SerialTables == {"procurement_tender", "company", "vendor_profile", "bond_flow",
                 "pipeline_job", "entity", "risk_alert", "risk_explanation",
                 "relationship_edge"}

\* a new database: no table created yet.  "created" is the set of the tables
\* that exist, "seq" the serial counters.
EmptyDb == [k \in SerialTables \cup {"seq", "created"} |->
               IF k = "seq" THEN [s \in SerialTables |-> 1]
               ELSE IF k = "created" THEN {}
               ELSE <<>>]

\* single: <<the four graph tables as the first completed population since they
\* were last truncated left them>>, <<>> before it
NoRuns == [migrate |-> 0, populate |-> 0, submit |-> 0, load |-> 0, single |-> <<>>]

\* ---- SQL statements ----

KeyOf(r, cols) == [c \in cols |-> r[c]]

\* CREATE TABLE IF NOT EXISTS
CreateTables(d, tables) == [d EXCEPT !.created = @ \cup tables]

\* INSERT INTO table ... [ON CONFLICT (cols) DO NOTHING]: cols = {} is the plain
\* INSERT.  The serial default is drawn before the conflict is found, so a
\* skipped row still uses up a value of the counter.
InsertRow(d, table, pk, cols, row) ==
    LET id     == d.seq[table]
        taken  == /\ cols # {}
                  /\ \E i \in DOMAIN d[table] : KeyOf(d[table][i], cols) = KeyOf(row, cols)
        drawn  == [d EXCEPT !.seq[table] = id + 1]
    IN  IF taken THEN drawn
        ELSE [drawn EXCEPT ![table] = Append(@, row @@ (pk :> id))]

\* executemany, or one multi-row VALUES list: the rows in order
RECURSIVE InsertRows(_, _, _, _, _)
InsertRows(d, table, pk, cols, rows) ==
    IF rows = <<>> THEN d
    ELSE InsertRows(InsertRow(d, table, pk, cols, Head(rows)), table, pk, cols, Tail(rows))

\* an INSERT of n rows that is rejected (a foreign key) or that is not
\* committed: no row is stored, the serial values it drew are gone
DrawOnly(d, table, n) == [d EXCEPT !.seq[table] = @ + n]

\* execute / execute_returning of an INSERT into a table with a serial key: the
\* statement runs, then the commit.  The row is stored; or the commit (or the
\* statement, after the default was drawn) fails and the serial value is lost;
\* or the statement fails before it draws one
InsertOutcomes == {"stored", "lost", "refused"}

\* TRUNCATE TABLE ... RESTART IDENTITY
Truncate(d, tables) ==
    [k \in DOMAIN d |->
        IF k \in tables THEN <<>>
        ELSE IF k = "seq" THEN [s \in DOMAIN d.seq |-> IF s \in tables THEN 1 ELSE d.seq[s]]
        ELSE d[k]]

\* DELETE FROM table: the serial counter keeps its value
DeleteFrom(d, tables) == [k \in DOMAIN d |-> IF k \in tables THEN <<>> ELSE d[k]]

\* list(a set), and the rows of a SELECT ... UNION without ORDER BY: the elements
\* in any order
RECURSIVE ListOfSet(_)
ListOfSet(S) ==
    IF S = {} THEN {<<>>}
    ELSE UNION {{<<x>> \o l : l \in ListOfSet(S \ {x})} : x \in S}

\* ---- migrate_all_to_neon.py ----

TenderTuples(rows, t) ==
    [i \in DOMAIN rows |->
        [ocid |-> rows[i].ocid, buyer_name |-> rows[i].buyer_name,
         category |-> rows[i].category, amount |-> rows[i].amount,
         risk_score |-> rows[i].risk_score,
         flag_single_bidder |-> rows[i].flag_single_bidder,
         source_file |-> "bulk_migration", is_user_submitted |-> FALSE,
         created_at |-> t]]

CompanyTuples(rows, t) ==
    [i \in DOMAIN rows |->
        [cin |-> rows[i].CIN, company_name |-> rows[i].CompanyName,
         shell_risk_score |-> rows[i].shell_risk_score,
         address_cluster_flag |-> rows[i].address_cluster_flag,
         created_at |-> t]]

VendorTuples(rows, t) ==
    [i \in DOMAIN rows |->
        [entity_id |-> rows[i].entity_id,
         composite_risk_score |-> rows[i].composite_risk_score,
         created_at |-> t]]

BondTuples(rows) ==
    [i \in DOMAIN rows |->
        [purchaser_name |-> rows[i].purchaser_name, party_name |-> rows[i].party_name,
         total_bonds |-> rows[i].total_bonds, total_value |-> rows[i].total_value]]

MigratedTables == {"pipeline_job", "bond_flow", "vendor_profile", "company", "procurement_tender"}

load_procurement_tenders(d, f, t) ==
    InsertRows(d, "procurement_tender", "tender_pk", {}, TenderTuples(f.procurement, t))

load_companies(d, f, t) ==
    InsertRows(d, "company", "company_pk", {"cin"}, CompanyTuples(f.companies, t))

load_vendor_profiles(d, f, t) ==
    InsertRows(d, "vendor_profile", "vendor_pk", {"entity_id"}, VendorTuples(f.vendor_profiles, t))

load_bond_flows(d, f) ==
    InsertRows(d, "bond_flow", "flow_pk", {"purchaser_name", "party_name"}, BondTuples(f.bond_flows))

\* main(): create the five tables where they are missing, clear them, then the
\* four loaders; one commit
MigrateMain(d, f, t) ==
    load_bond_flows(
        load_vendor_profiles(
            load_companies(
                load_procurement_tenders(
                    Truncate(CreateTables(d, MigratedTables), MigratedTables), f, t),
                f, t), f, t), f)

\* ---- load_all_to_neon.py ----

\* the tables of its DDL that another program reads or writes; the bond tables
\* (download_bonds, redemption_bonds, bond_master, the two event tables) and
\* entity_alias are filled and read by this program alone
GraphTables == {"entity", "relationship_edge", "risk_alert", "risk_explanation"}

\* LOWER(TRIM(name)) on the names of the domain
LowerName(n) == CASE n = "A" -> "a" [] OTHER -> n

\* INSERT INTO entity ... SELECT ... UNION ...: the distinct rows
LoadedEntities(down, red) ==
    {[entity_type |-> "PURCHASER", canonical_name |-> down[i].purchaser_name,
      normalized_name |-> LowerName(down[i].purchaser_name)] : i \in DOMAIN down}
    \cup {[entity_type |-> "PARTY", canonical_name |-> red[i].party_name,
           normalized_name |-> LowerName(red[i].party_name)] : i \in DOMAIN red}
    \cup {[entity_type |-> "BRANCH", canonical_name |-> down[i].issue_branch_code,
           normalized_name |-> LowerName(down[i].issue_branch_code)] : i \in DOMAIN down}
    \cup {[entity_type |-> "BRANCH", canonical_name |-> red[i].pay_branch_code,
           normalized_name |-> LowerName(red[i].pay_branch_code)] : i \in DOMAIN red}
    \cup {[entity_type |-> "ACCOUNT", canonical_name |-> red[i].account_no,
           normalized_name |-> LowerName(red[i].account_no)] : i \in DOMAIN red}

\* the entity_id stored for (entity_type, normalized_name)
EntityIdOf(d, type, norm) ==
    LET i == CHOOSE j \in DOMAIN d.entity :
                 d.entity[j].entity_type = type /\ d.entity[j].normalized_name = norm
    IN  d.entity[i].entity_id

\* INSERT INTO relationship_edge ... FROM download_bonds d JOIN redemption_bonds r
\* ...: one edge per bond that was bought and encashed (at most one in the domain)
LoadedEdges(d, down, red) ==
    LET pairs == SelectSeq(down, LAMBDA x : \E i \in DOMAIN red : red[i].bond = x.bond)
    IN  [i \in DOMAIN pairs |->
            [src_entity_id |-> EntityIdOf(d, "PURCHASER", LowerName(pairs[i].purchaser_name)),
             dst_entity_id |-> EntityIdOf(d, "PARTY", LowerName(red[1].party_name)),
             edge_type |-> "PURCHASER_TO_PARTY_VIA_BOND", weight |-> 1]]

\* main(): DDL, TRUNCATE ... RESTART IDENTITY CASCADE, the two COPYs and
\* POPULATE_SQL, one commit; rows is the order in which the UNION yields the
\* entity rows
LoadMain(d, down, red, rows) ==
    LET d1 == InsertRows(Truncate(CreateTables(d, GraphTables), GraphTables),
                         "entity", "entity_id", {}, rows)
    IN  InsertRows(d1, "relationship_edge", "edge_id", {}, LoadedEdges(d1, down, red))

\* ---- populate_risk_alerts.py ----

\* name.strip().upper() on the names of the domain
NormalizedName(n) ==
    CASE n = "Acme" -> "ACME"
      [] n = "b1" -> "B1"
      [] n = "b2" -> "B2"
      [] n = "p1" -> "P1"
      [] OTHER -> n

RiskLevel(x, high, medium) ==
    IF x >= high THEN "HIGH" ELSE IF x >= medium THEN "MEDIUM" ELSE "LOW"

\* build_tender_alert_data: one alert per row with risk_score >= 20; the alert's
\* risk_score is round(risk_score / 100, 4), kept in 1/10000
TenderAlertSpec(r) ==
    [entity_key   |-> <<"PROCUREMENT_BUYER", r.buyer_name>>,
     risk_score   |-> r.risk_score,
     risk_level   |-> RiskLevel(r.risk_score, 5000, 2500),
     explanations |-> IF r.flag_single_bidder # 0 THEN <<"SINGLE_BIDDER">> ELSE <<"COMPOSITE">>]

build_tender_alert_data(rows) ==
    LET flagged == SelectSeq(rows, LAMBDA r : r.risk_score >= 2000)
    IN  [i \in DOMAIN flagged |-> TenderAlertSpec(flagged[i])]

\* build_shell_alert_data: one alert per row with shell_risk_score >= 25
ShellAlertSpec(r) ==
    [entity_key   |-> <<"COMPANY", r.CompanyName>>,
     risk_score   |-> r.shell_risk_score,
     risk_level   |-> RiskLevel(r.shell_risk_score, 5000, 2500),
     explanations |-> IF r.address_cluster_flag # 0 THEN <<"ADDRESS_CLUSTER">>
                      ELSE <<"SHELL_COMPOSITE">>]

build_shell_alert_data(rows) ==
    LET flagged == SelectSeq(rows, LAMBDA r : r.shell_risk_score >= 2500)
    IN  [i \in DOMAIN flagged |-> ShellAlertSpec(flagged[i])]

\* The totals k * 10^6 + 500000 rupees below 2^31 for which
\* round(val / 1e7 / 1000, 4) is (k + 1) / 10000: the quotient of the two float
\* divisions lies above the decimal tie.  For the other k it is k / 10000.
TieRoundsUp ==
    {0, 2, 5, 7, 10, 12, 13, 17, 18, 21, 23, 24, 26, 28, 29, 31, 33, 34,
     36, 38, 39, 41, 42, 45, 46, 49, 51, 52, 55, 56, 59, 61, 62, 64, 66,
     69, 71, 72, 74, 76, 79, 81, 82, 85, 87, 88, 90, 91, 94, 95, 96, 101,
     102, 105, 108, 110, 111, 114, 115, 116, 117, 121, 122, 125, 128, 130,
     131, 134, 135, 136, 137, 141, 142, 145, 148, 150, 151, 155, 156, 157,
     160, 162, 165, 167, 168, 172, 173, 174, 178, 179, 180, 183, 185, 188,
     190, 193, 195, 197, 198, 200, 202, 203, 205, 207, 208, 212, 213, 214,
     218, 219, 220, 223, 225, 228, 230, 233, 235, 237, 238, 240, 242, 243,
     245, 247, 248, 252, 253, 254, 258, 259, 260, 263, 265, 266, 268, 270,
     273, 275, 277, 280, 282, 283, 287, 288, 289, 292, 293, 294, 298, 299,
     300, 303, 305, 306, 308, 310, 313, 315, 317, 318, 322, 323, 327, 328,
     329, 332, 333, 334, 337, 339, 342, 344, 346, 347, 349, 351, 354, 356,
     359, 361, 363, 364, 366, 368, 369, 373, 374, 375, 378, 379, 380, 383,
     384, 388, 389, 392, 393, 394, 397, 398, 402, 403, 407, 408, 409, 412,
     413, 414, 417, 419, 422, 424, 426, 427, 429, 431, 434, 436, 438, 439,
     441, 443, 444, 448, 449, 453, 454, 455, 458, 459, 463, 464, 468, 469,
     472, 473, 474, 477, 478, 482, 483, 484, 487, 488, 489, 492, 494, 497,
     499, 501, 502, 504, 506, 507, 509, 511, 514, 516, 518, 519, 521, 523,
     524, 528, 529, 533, 534, 535, 538, 539, 543, 544, 547, 548, 549, 552,
     553, 554, 557, 558, 562, 563, 564, 567, 568, 569, 572, 574, 577, 579,
     581, 582, 584, 586, 589, 591, 594, 596, 598, 599, 603, 604, 608, 609,
     610, 613, 614, 615, 618, 619, 623, 624, 627, 628, 629, 632, 633, 634,
     637, 638, 639, 641, 642, 644, 647, 649, 652, 654, 656, 657, 659, 661,
     662, 664, 666, 667, 669, 671, 672, 676, 677, 681, 682, 686, 687, 690,
     691, 692, 695, 696, 697, 700, 701, 702, 705, 706, 710, 711, 715, 716,
     719, 720, 721, 724, 725, 726, 729, 730, 731, 734, 736, 739, 741, 744,
     746, 749, 751, 753, 754, 756, 758, 759, 761, 763, 764, 766, 769, 771,
     774, 776, 779, 781, 782, 784, 786, 787, 789, 791, 792, 794, 796, 797,
     799, 802, 804, 807, 809, 812, 814, 816, 817, 819, 821, 822, 824, 826,
     827, 831, 832, 836, 837, 841, 842, 845, 846, 847, 850, 851, 852, 855,
     856, 857, 860, 861, 865, 866, 870, 871, 875, 876, 879, 880, 881, 884,
     885, 886, 889, 891, 894, 896, 899, 901, 904, 906, 908, 909, 911, 913,
     914, 916, 918, 919, 921, 924, 926, 929, 931, 934, 936, 937, 939, 941,
     942, 944, 946, 947, 949, 951, 952, 954, 957, 959, 962, 964, 967, 969,
     971, 972, 974, 976, 977, 979, 981, 982, 984, 986, 987, 991, 992, 996,
     997, 1000, 1001, 1002, 1005, 1006, 1007, 1010, 1011, 1012, 1015, 1016,
     1020, 1021, 1025, 1026, 1030, 1031, 1034, 1035, 1036, 1039, 1040,
     1041, 1044, 1045, 1046, 1049, 1051, 1054, 1056, 1059, 1061, 1063,
     1064, 1066, 1068, 1069, 1071, 1073, 1074, 1076, 1079, 1081, 1084,
     1086, 1089, 1091, 1094, 1096, 1097, 1099, 1101, 1102, 1104, 1106,
     1107, 1109, 1112, 1114, 1117, 1119, 1122, 1124, 1126, 1127, 1129,
     1131, 1132, 1134, 1136, 1137, 1139, 1141, 1142, 1146, 1147, 1151,
     1152, 1156, 1157, 1160, 1161, 1162, 1165, 1166, 1167, 1170, 1171,
     1175, 1176, 1180, 1181, 1185, 1186, 1189, 1190, 1191, 1194, 1195,
     1196, 1199, 1200, 1201, 1204, 1206, 1209, 1211, 1214, 1216, 1219,
     1221, 1223, 1224, 1226, 1228, 1229, 1231, 1234, 1236, 1239, 1241,
     1244, 1246, 1249, 1251, 1252, 1254, 1256, 1257, 1259, 1261, 1262,
     1264, 1266, 1267, 1269, 1271, 1272, 1274, 1276, 1277, 1279, 1280,
     1281, 1282, 1286, 1287, 1291, 1292, 1296, 1297, 1301, 1302, 1306,
     1307, 1311, 1312, 1315, 1316, 1317, 1320, 1321, 1322, 1325, 1326,
     1327, 1330, 1331, 1332, 1335, 1336, 1337, 1340, 1341, 1342, 1345,
     1347, 1350, 1352, 1355, 1357, 1360, 1362, 1365, 1367, 1370, 1372,
     1375, 1377, 1378, 1380, 1382, 1383, 1385, 1387, 1388, 1390, 1392,
     1393, 1395, 1397, 1398, 1400, 1402, 1403, 1405, 1408, 1410, 1413,
     1415, 1418, 1420, 1423, 1425, 1428, 1430, 1433, 1435, 1438, 1440,
     1441, 1443, 1445, 1446, 1448, 1450, 1451, 1453, 1455, 1456, 1458,
     1460, 1461, 1463, 1465, 1466, 1470, 1471, 1475, 1476, 1480, 1481,
     1485, 1486, 1490, 1491, 1495, 1496, 1500, 1501, 1504, 1505, 1506,
     1509, 1510, 1511, 1514, 1515, 1516, 1519, 1520, 1521, 1524, 1525,
     1526, 1530, 1531, 1535, 1536, 1540, 1541, 1545, 1546, 1550, 1551,
     1555, 1556, 1560, 1561, 1565, 1566, 1567, 1570, 1571, 1572, 1575,
     1576, 1577, 1580, 1581, 1582, 1585, 1586, 1587, 1590, 1591, 1592,
     1595, 1596, 1597, 1601, 1602, 1606, 1607, 1611, 1612, 1616, 1617,
     1621, 1622, 1625, 1626, 1627, 1630, 1631, 1632, 1635, 1636, 1637,
     1640, 1641, 1642, 1645, 1646, 1647, 1650, 1651, 1652, 1655, 1656,
     1657, 1660, 1662, 1665, 1667, 1670, 1672, 1675, 1677, 1680, 1682,
     1685, 1687, 1688, 1690, 1692, 1693, 1695, 1697, 1698, 1700, 1702,
     1703, 1705, 1707, 1708, 1710, 1712, 1713, 1715, 1717, 1718, 1720,
     1723, 1725, 1728, 1730, 1733, 1735, 1738, 1740, 1743, 1745, 1748,
     1750, 1751, 1753, 1755, 1756, 1758, 1760, 1761, 1763, 1765, 1766,
     1768, 1770, 1771, 1773, 1775, 1776, 1778, 1780, 1781, 1785, 1786,
     1790, 1791, 1795, 1796, 1800, 1801, 1805, 1806, 1810, 1811, 1814,
     1815, 1816, 1819, 1820, 1821, 1824, 1825, 1826, 1829, 1830, 1831,
     1834, 1835, 1836, 1839, 1840, 1841, 1845, 1846, 1850, 1851, 1855,
     1856, 1860, 1861, 1865, 1866, 1870, 1871, 1875, 1876, 1877, 1880,
     1881, 1882, 1885, 1886, 1887, 1890, 1891, 1892, 1895, 1896, 1897,
     1900, 1901, 1902, 1905, 1906, 1907, 1911, 1912, 1916, 1917, 1921,
     1922, 1926, 1927, 1931, 1932, 1936, 1937, 1940, 1941, 1942, 1945,
     1946, 1947, 1950, 1951, 1952, 1955, 1956, 1957, 1960, 1961, 1962,
     1965, 1966, 1967, 1970, 1972, 1975, 1977, 1980, 1982, 1985, 1987,
     1990, 1992, 1995, 1997, 2000, 2002, 2003, 2005, 2007, 2008, 2010,
     2012, 2013, 2015, 2017, 2018, 2020, 2022, 2023, 2025, 2027, 2028,
     2030, 2033, 2035, 2038, 2040, 2043, 2045, 2048, 2050, 2053, 2055,
     2058, 2060, 2063, 2065, 2066, 2068, 2070, 2071, 2073, 2075, 2076,
     2078, 2080, 2081, 2083, 2085, 2086, 2088, 2090, 2091, 2095, 2096,
     2100, 2101, 2105, 2106, 2110, 2111, 2115, 2116, 2120, 2121, 2125,
     2126, 2129, 2130, 2131, 2134, 2135, 2136, 2139, 2140, 2141, 2144,
     2145, 2146}

\* round(min(val / 1e7 / 1000, 1.0), 4) in 1/10000, val in whole rupees: val / 1e10
\* to the nearest 1/10000, on a tie as the binary quotient decides, and 1.0 from
\* 1e10 rupees on (a total of 10000 millions; the integers end below it)
BondRiskScore(val) ==
    IF val \div 1000000 >= 10000 THEN 10000
    ELSE IF val % 1000000 = 500000
         THEN (IF (val \div 1000000) \in TieRoundsUp THEN val \div 1000000 + 1
               ELSE val \div 1000000)
    ELSE RoundDiv(val, 1000000)

\* build_bond_alert_data: one alert per purchaser with at least 1 crore in total
BondAlertSpec(name, val) ==
    [entity_key   |-> <<"BOND_PURCHASER", name>>,
     risk_score   |-> BondRiskScore(val),
     risk_level   |-> RiskLevel(val, 500000000, 100000000),
     explanations |-> <<"ELECTORAL_BOND">>]

build_bond_alert_data(rows) ==
    LET total(p) == SumOver({i \in DOMAIN rows : rows[i].purchaser_name = p},
                            [i \in DOMAIN rows |-> rows[i].total_value])
        named    == SelectSeq(<<"p1">>, LAMBDA p : \E i \in DOMAIN rows : rows[i].purchaser_name = p)
        kept     == SelectSeq(named, LAMBDA p : total(p) >= 10000000)
    IN  [i \in DOMAIN kept |-> BondAlertSpec(kept[i], total(kept[i]))]

\* all_alert_specs = t_alerts + s_alerts + b_alerts
AlertSpecs(f) ==
    build_tender_alert_data(f.procurement)
        \o build_shell_alert_data(f.companies)
        \o build_bond_alert_data(f.bond_flows)

\* the (type, name) pairs of the three builders
EntityPairs(f) ==
    LET specs   == AlertSpecs(f)
        b_edges == f.bond_flows
    IN  {specs[i].entity_key : i \in DOMAIN specs}
            \cup {<<"BOND_PURCHASER", b_edges[i].purchaser_name>> : i \in DOMAIN b_edges}
            \cup {<<"POLITICAL_PARTY", b_edges[i].party_name>> : i \in DOMAIN b_edges}

\* the set "unique" of bulk_ensure_entities: the cache of a new process is empty,
\* so every pair is in it
UniqueEntities(pairs) ==
    {[entity_type |-> p[1], canonical_name |-> p[2],
      normalized_name |-> NormalizedName(p[2])] : p \in pairs}

\* bulk_ensure_entities: rows = list(unique) is offered to the table, a row
\* whose (entity_type, normalized_name) is stored already is skipped
bulk_ensure_entities(d, rows) ==
    InsertRows(d, "entity", "entity_id", {"entity_type", "normalized_name"}, rows)

\* _entity_cache after the SELECT: (type, normalized name) -> entity_id
EntityCache(d, pairs) ==
    [k \in {<<p[1], NormalizedName(p[2])>> : p \in pairs} |-> EntityIdOf(d, k[1], k[2])]

\* _entity_cache[(entity_type, canonical_name.strip().upper())]
get_entity_id(cache, key) == cache[<<key[1], NormalizedName(key[2])>>]

AlertTuples(cache, specs, t) ==
    [i \in DOMAIN specs |->
        [entity_id |-> get_entity_id(cache, specs[i].entity_key),
         risk_score |-> specs[i].risk_score, risk_level |-> specs[i].risk_level,
         generated_at |-> t]]

\* zip(alert_ids, all_alert_specs)
RECURSIVE ExplanationTuples(_, _)
ExplanationTuples(alert_ids, specs) ==
    IF specs = <<>> THEN <<>>
    ELSE [k \in DOMAIN Head(specs).explanations |->
             [alert_id |-> Head(alert_ids), rule_or_model |-> Head(specs).explanations[k]]]
         \o ExplanationTuples(Tail(alert_ids), Tail(specs))

EdgeTuples(cache, rows) ==
    [i \in DOMAIN rows |->
        [src_entity_id |-> get_entity_id(cache, <<"BOND_PURCHASER", rows[i].purchaser_name>>),
         dst_entity_id |-> get_entity_id(cache, <<"POLITICAL_PARTY", rows[i].party_name>>),
         edge_type |-> "ELECTORAL_BOND_FLOW", weight |-> rows[i].total_value]]

\* the values a column of a table holds
ColumnOf(d, table, col) == {d[table][i][col] : i \in DOMAIN d[table]}

\* main() run without another session in between, on a database that has the
\* four tables: delete the three derived tables, ensure the entities, insert the
\* alerts, their explanations and the edges
PopulateMain(d, f, rows, t) ==
    LET specs == AlertSpecs(f)
        d0 == DeleteFrom(d, {"risk_explanation", "risk_alert", "relationship_edge"})
        d1 == bulk_ensure_entities(d0, rows)
        cache == EntityCache(d1, EntityPairs(f))
        d2 == InsertRows(d1, "risk_alert", "alert_id", {}, AlertTuples(cache, specs, t))
        alert_ids == [i \in DOMAIN specs |-> d1.seq["risk_alert"] + i - 1]
        d3 == InsertRows(d2, "risk_explanation", "explanation_id", {},
                         ExplanationTuples(alert_ids, specs))
    IN  InsertRows(d3, "relationship_edge", "edge_id", {}, EdgeTuples(cache, f.bond_flows))

\* ---- the tender worker of the application ----

\* the tender a user submits
UserTender == [amount |-> 12, num_tenderers |-> 1, duration_days |-> 30,
               procurement_method |-> "Open Tender", category |-> "c1", buyer_name |-> "b1"]

\* ocid = f"USER_{datetime.now().strftime('%Y%m%d%H%M%S')}_{job_id}"
UserOcid(t, job_id) == "USER_" \o ToString(t) \o "_" \o ToString(job_id)

\* the row _run_pipeline_for_tender stores, no scorer loaded
SubmittedTender(f, ocid, t) ==
    [ocid |-> ocid, buyer_name |-> UserTender.buyer_name,
     category |-> UserTender.category, amount |-> UserTender.amount,
     risk_score |-> RuleScore(f), flag_single_bidder |-> f.flag_single_bidder,
     source_file |-> "user_submitted", is_user_submitted |-> TRUE, created_at |-> t]

\* UPDATE pipeline_job SET status = ... WHERE job_id = ...
UpdateJob(d, job_id, status) ==
    [d EXCEPT !.pipeline_job =
        [i \in DOMAIN @ |-> IF @[i].job_id = job_id THEN [@[i] EXCEPT !.status = status]
                            ELSE @[i]]]

\* a row without the columns in cols
Without(r, cols) == [c \in (DOMAIN r) \ cols |-> r[c]]

\* the rows of the four tables the population writes, every column but
\* generated_at, the clock of the run
StoredView(d) ==
    [t \in GraphTables |-> [i \in DOMAIN d[t] |-> Without(d[t][i], {"generated_at"})]]

\* ---- the programs as steps ----

NoPopulate == [pos |-> "idle", cache |-> <<>>, now |-> 0, alert_ids |-> <<>>, overlapped |-> FALSE]
NoWorker == [pos |-> "idle", job_id |-> 0, flags |-> NoFlags, ocid |-> ""]

\* migrate_all_to_neon main(): one transaction
MigrateStep ==
    /\ dpc # "idle"
    /\ now < MaxOps
    /\ db' = MigrateMain(db, files, now + 1)
    /\ dpc' = "migrated"
    /\ runs' = [runs EXCEPT !.migrate = @ + 1]
    /\ now' = now + 1
    /\ UNCHANGED <<files, pop, sub>>

\* load_all_to_neon main(): one transaction; without its two CSV files it raises
\* FileNotFoundError and the transaction, its DDL included, is rolled back
LoadStep(present, down, red) ==
    /\ dpc # "idle"
    /\ now < MaxOps
    /\ now' = now + 1
    /\ IF present
       THEN /\ \E rows \in ListOfSet(LoadedEntities(down, red)) :
                   db' = LoadMain(db, down, red, rows)
            /\ dpc' = "loaded"
            /\ runs' = [runs EXCEPT !.load = @ + 1, !.single = <<>>]
            /\ pop' = [pop EXCEPT !.overlapped = @ \/ pop.pos # "idle"]
       ELSE /\ dpc' = "FileNotFoundError"
            /\ UNCHANGED <<db, runs, pop>>
    /\ UNCHANGED <<files, sub>>

\* populate main() up to its first commit: the three DELETEs (and the widening of
\* relationship_edge.weight); on a database without the tables the first DELETE
\* raises UndefinedTable
PopulateClear ==
    /\ dpc # "idle"
    /\ pop.pos = "idle"
    /\ now < MaxOps
    /\ now' = now + 1
    /\ IF GraphTables \subseteq db.created
       THEN /\ db' = DeleteFrom(db, {"risk_explanation", "risk_alert", "relationship_edge"})
            /\ pop' = [NoPopulate EXCEPT !.pos = "cleared"]
            /\ dpc' = "populating"
       ELSE /\ dpc' = "UndefinedTable"
            /\ pop' = NoPopulate
            /\ UNCHANGED db
    /\ UNCHANGED <<files, runs, sub>>

\* bulk_ensure_entities and the commit after it
PopulateEntities ==
    /\ pop.pos = "cleared"
    /\ \E rows \in ListOfSet(UniqueEntities(EntityPairs(files))) :
           /\ db' = bulk_ensure_entities(db, rows)
           /\ pop' = [pop EXCEPT !.pos = "ensured",
                                 !.cache = EntityCache(db', EntityPairs(files))]
    /\ dpc' = "populating"
    /\ UNCHANGED <<files, runs, now, sub>>

\* now = datetime.now(timezone.utc): the clock is read once, after the commit of
\* the entities and before the alert tuples are built
PopulateNow ==
    /\ pop.pos = "ensured"
    /\ pop' = [pop EXCEPT !.pos = "timed", !.now = now]
    /\ UNCHANGED <<files, db, dpc, runs, now, sub>>

\* the alert tuples (generated_at is the clock read before), batch_insert_alerts
\* and the commit after it; an entity_id that is no longer in the entity table
\* violates the foreign key and ends the run
PopulateAlerts ==
    /\ pop.pos = "timed"
    /\ LET specs  == AlertSpecs(files)
           tuples == AlertTuples(pop.cache, specs, pop.now)
       IN  IF \A i \in DOMAIN tuples : tuples[i].entity_id \in ColumnOf(db, "entity", "entity_id")
           THEN /\ db' = InsertRows(db, "risk_alert", "alert_id", {}, tuples)
                /\ pop' = [pop EXCEPT !.pos = "alerted",
                               !.alert_ids = [i \in DOMAIN specs |-> db.seq["risk_alert"] + i - 1]]
                /\ dpc' = "populating"
           ELSE /\ db' = DrawOnly(db, "risk_alert", Len(tuples))
                /\ pop' = [NoPopulate EXCEPT !.overlapped = pop.overlapped]
                /\ dpc' = "ForeignKeyViolation"
    /\ UNCHANGED <<files, runs, now, sub>>

\* batch_insert_explanations and the commit after it
PopulateExplanations ==
    /\ pop.pos = "alerted"
    /\ LET tuples == ExplanationTuples(pop.alert_ids, AlertSpecs(files))
       IN  IF \A i \in DOMAIN tuples : tuples[i].alert_id \in ColumnOf(db, "risk_alert", "alert_id")
           THEN /\ db' = InsertRows(db, "risk_explanation", "explanation_id", {}, tuples)
                /\ pop' = [pop EXCEPT !.pos = "explained"]
                /\ dpc' = "populating"
           ELSE /\ db' = DrawOnly(db, "risk_explanation", Len(tuples))
                /\ pop' = [NoPopulate EXCEPT !.overlapped = pop.overlapped]
                /\ dpc' = "ForeignKeyViolation"
    /\ UNCHANGED <<files, runs, now, sub>>

\* the relationship edges, the last commit, and the end of main()
PopulateEdges ==
    /\ pop.pos = "explained"
    /\ LET tuples == EdgeTuples(pop.cache, files.bond_flows)
           ids    == ColumnOf(db, "entity", "entity_id")
       IN  IF \A i \in DOMAIN tuples : tuples[i].src_entity_id \in ids /\ tuples[i].dst_entity_id \in ids
           THEN /\ db' = InsertRows(db, "relationship_edge", "edge_id", {}, tuples)
                /\ dpc' = "populated"
                /\ runs' = [runs EXCEPT !.populate = @ + 1,
                                        !.single = IF @ = <<>> THEN <<StoredView(db')>> ELSE @]
           ELSE /\ db' = DrawOnly(db, "relationship_edge", Len(tuples))
                /\ dpc' = "ForeignKeyViolation"
                /\ UNCHANGED runs
    /\ pop' = [NoPopulate EXCEPT !.overlapped = pop.overlapped]
    /\ UNCHANGED <<files, now, sub>>

\* submit_tender: INSERT INTO pipeline_job (..., 'queued', ...) RETURNING job_id
\* and its commit; the task is added and runs after the response.  When the
\* INSERT or its commit fails the handler raises: no job, no task, and the
\* job_id it drew is used up.  Without the tables the request fails.
SubmitRequest(o) ==
    /\ dpc # "idle"
    /\ sub.pos = "idle"
    /\ now < MaxOps
    /\ o # "refused"
    /\ now' = now + 1
    /\ IF MigratedTables \subseteq db.created
       THEN IF o = "stored"
            THEN /\ db' = InsertRow(db, "pipeline_job", "job_id", {},
                                    [status |-> "queued", created_at |-> now + 1])
                 /\ sub' = [NoWorker EXCEPT !.pos = "queued",
                                            !.job_id = db.seq["pipeline_job"]]
                 /\ dpc' = "submitting"
            ELSE /\ db' = DrawOnly(db, "pipeline_job", 1)
                 /\ dpc' = "raised"
                 /\ UNCHANGED sub
       ELSE /\ dpc' = "UndefinedTable"
            /\ UNCHANGED <<db, sub>>
    /\ UNCHANGED <<files, runs, pop>>

\* a statement of the worker's try block that the database refuses: nothing is
\* written and the except block is next
SubmitRaise ==
    /\ sub' = [sub EXCEPT !.pos = "except"]
    /\ UNCHANGED <<db, dpc>>

\* the worker's first statement and its commit: UPDATE pipeline_job SET status =
\* 'running'; a job row that a migration has truncated meanwhile is not there to
\* be updated, which is no error
SubmitRunning(ok) ==
    /\ sub.pos = "queued"
    /\ IF ok
       THEN /\ db' = UpdateJob(db, sub.job_id, "running")
            /\ sub' = [sub EXCEPT !.pos = "running"]
            /\ dpc' = "submitting"
       ELSE SubmitRaise
    /\ UNCHANGED <<files, runs, now, pop>>

\* the first query of compute_rule_flags, a transaction of its own
SubmitPercentile(ok) ==
    /\ sub.pos = "running"
    /\ IF ok
       THEN sub' = [sub EXCEPT !.pos = "percentile",
                        !.flags = [compute_rule_flags(UserTender, db.procurement_tender)
                                       EXCEPT !.flag_buyer_concentration = 0]]
       ELSE sub' = [sub EXCEPT !.pos = "except"]
    /\ UNCHANGED <<files, db, dpc, runs, now, pop>>

\* the second query of compute_rule_flags
SubmitShare(ok) ==
    /\ sub.pos = "percentile"
    /\ IF ok
       THEN sub' = [sub EXCEPT !.pos = "flagged",
                        !.flags = [@ EXCEPT !.flag_buyer_concentration =
                            compute_rule_flags(UserTender, db.procurement_tender).flag_buyer_concentration]]
       ELSE sub' = [sub EXCEPT !.pos = "except"]
    /\ UNCHANGED <<files, db, dpc, runs, now, pop>>

\* Step 3: the ocid, from the clock as it is read here
SubmitOcid ==
    /\ sub.pos = "flagged"
    /\ sub' = [sub EXCEPT !.pos = "named", !.ocid = UserOcid(now, sub.job_id)]
    /\ UNCHANGED <<files, db, dpc, runs, now, pop>>

\* Step 4: INSERT INTO procurement_tender and its commit (created_at is the time
\* of the INSERT); the job is still running.  An INSERT that fails at its commit
\* stores no row and has used up its tender_pk.
SubmitStore(o) ==
    /\ sub.pos = "named"
    /\ CASE o = "stored" ->
              /\ db' = InsertRow(db, "procurement_tender", "tender_pk", {},
                                 SubmittedTender(sub.flags, sub.ocid, now))
              /\ sub' = [sub EXCEPT !.pos = "stored"]
              /\ dpc' = "submitting"
         [] o = "lost" ->
              /\ db' = DrawOnly(db, "procurement_tender", 1)
              /\ sub' = [sub EXCEPT !.pos = "except"]
              /\ dpc' = "submitting"
         [] OTHER -> SubmitRaise
    /\ UNCHANGED <<files, runs, now, pop>>

\* Step 5: UPDATE pipeline_job SET status = 'completed' and its commit
SubmitComplete(ok) ==
    /\ sub.pos = "stored"
    /\ IF ok
       THEN /\ db' = UpdateJob(db, sub.job_id, "completed")
            /\ sub' = NoWorker
            /\ dpc' = "submitted"
            /\ runs' = [runs EXCEPT !.submit = @ + 1]
       ELSE SubmitRaise /\ UNCHANGED runs
    /\ UNCHANGED <<files, now, pop>>

\* except Exception: UPDATE pipeline_job SET status = 'failed' and its commit; an
\* exception of this statement leaves the worker
SubmitFailed(ok) ==
    /\ sub.pos = "except"
    /\ db' = IF ok THEN UpdateJob(db, sub.job_id, "failed") ELSE db
    /\ sub' = NoWorker
    /\ dpc' = IF ok THEN "failed" ELSE "raised"
    /\ UNCHANGED <<files, runs, now, pop>>

InitMigrate ==
    /\ IdleScore
    /\ artifacts = FALSE
    /\ IdleVendor
    /\ IdleMatch
    /\ IdleShell
    /\ IdleBond
    /\ IdleRun
    /\ IdleJobs
    /\ dpc = "start"
    /\ files \in FileSets
    /\ db = EmptyDb
    /\ runs = NoRuns
    /\ now = 0
    /\ pop = NoPopulate
    /\ sub = NoWorker

NextMigrate ==
    \/ MigrateStep /\ UNCHANGED <<scoreVars, vendorVars, matchVars, shellVars, bondVars, runVars, jobVars>>
    \/ \E present \in BOOLEAN, down \in DownloadFiles, red \in RedemptionFiles :
           LoadStep(present, down, red) /\ UNCHANGED <<scoreVars, vendorVars, matchVars, shellVars, bondVars, runVars, jobVars>>
    \/ PopulateClear /\ UNCHANGED <<scoreVars, vendorVars, matchVars, shellVars, bondVars, runVars, jobVars>>
    \/ PopulateEntities /\ UNCHANGED <<scoreVars, vendorVars, matchVars, shellVars, bondVars, runVars, jobVars>>
    \/ PopulateNow /\ UNCHANGED <<scoreVars, vendorVars, matchVars, shellVars, bondVars, runVars, jobVars>>
    \/ PopulateAlerts /\ UNCHANGED <<scoreVars, vendorVars, matchVars, shellVars, bondVars, runVars, jobVars>>
    \/ PopulateExplanations /\ UNCHANGED <<scoreVars, vendorVars, matchVars, shellVars, bondVars, runVars, jobVars>>
    \/ PopulateEdges /\ UNCHANGED <<scoreVars, vendorVars, matchVars, shellVars, bondVars, runVars, jobVars>>
    \/ \E o \in InsertOutcomes : SubmitRequest(o) /\ UNCHANGED <<scoreVars, vendorVars, matchVars, shellVars, bondVars, runVars, jobVars>>
    \/ \E ok \in BOOLEAN : SubmitRunning(ok) /\ UNCHANGED <<scoreVars, vendorVars, matchVars, shellVars, bondVars, runVars, jobVars>>
    \/ \E ok \in BOOLEAN : SubmitPercentile(ok) /\ UNCHANGED <<scoreVars, vendorVars, matchVars, shellVars, bondVars, runVars, jobVars>>
    \/ \E ok \in BOOLEAN : SubmitShare(ok) /\ UNCHANGED <<scoreVars, vendorVars, matchVars, shellVars, bondVars, runVars, jobVars>>
    \/ SubmitOcid /\ UNCHANGED <<scoreVars, vendorVars, matchVars, shellVars, bondVars, runVars, jobVars>>
    \/ \E o \in InsertOutcomes : SubmitStore(o) /\ UNCHANGED <<scoreVars, vendorVars, matchVars, shellVars, bondVars, runVars, jobVars>>
    \/ \E ok \in BOOLEAN : SubmitComplete(ok) /\ UNCHANGED <<scoreVars, vendorVars, matchVars, shellVars, bondVars, runVars, jobVars>>
    \/ \E ok \in BOOLEAN : SubmitFailed(ok) /\ UNCHANGED <<scoreVars, vendorVars, matchVars, shellVars, bondVars, runVars, jobVars>>

SpecMigrate == InitMigrate /\ [][NextMigrate]_vars

-----------------------------------------------------------------------------
(* Claims on the stored tables *)

\* the rows of a table that carry the key k in the columns cols
RowsWithKey(table, cols, k) == {i \in DOMAIN db[table] : KeyOf(db[table][i], cols) = k}

\* after a migration, the first file row of a key is the one that is stored
FirstOfKey(table, cols, tuples) ==
    \A i \in DOMAIN tuples :
        LET k == KeyOf(tuples[i], cols)
            first == CHOOSE j \in DOMAIN tuples :
                         /\ KeyOf(tuples[j], cols) = k
                         /\ \A h \in 1..(j - 1) : KeyOf(tuples[h], cols) # k
        IN  /\ Cardinality(RowsWithKey(table, cols, k)) = 1
            /\ \A r \in RowsWithKey(table, cols, k) :
                   \A c \in DOMAIN tuples[first] : db[table][r][c] = tuples[first][c]

\* C22: a record whose natural key (tender OCID, company CIN, vendor entity_id,
\* bond-flow purchaser and party) is stored already is skipped: the stored row
\* stays as it is and no second row with the key is added
C22_ConflictsSkipped ==
    dpc = "migrated" =>
        /\ FirstOfKey("procurement_tender", {"ocid"}, TenderTuples(files.procurement, now))
        /\ FirstOfKey("company", {"cin"}, CompanyTuples(files.companies, now))
        /\ FirstOfKey("vendor_profile", {"entity_id"}, VendorTuples(files.vendor_profiles, now))
        /\ FirstOfKey("bond_flow", {"purchaser_name", "party_name"}, BondTuples(files.bond_flows))

\* the five migrated tables with their serial counters, every column but the
\* load time
MigratedView(d) ==
    [t \in MigratedTables |->
        [rows |-> [i \in DOMAIN d[t] |-> Without(d[t][i], {"created_at"})],
         next |-> d.seq[t]]]

\* the (entity_type, normalized_name) of the entity an id stands for
EntityKey(d, id) ==
    LET i == CHOOSE j \in DOMAIN d.entity : d.entity[j].entity_id = id
    IN  <<d.entity[i].entity_type, d.entity[i].normalized_name>>

\* the derived tables as a reader sees them: the alerts in order, each with its
\* entity, its score and level and its rules, and the edges in order with their
\* two entities; serial ids and the alerts' generation time are left out
DerivedView(d) ==
    [risk_alert |->
         [i \in DOMAIN d.risk_alert |->
             [entity |-> EntityKey(d, d.risk_alert[i].entity_id),
              risk_score |-> d.risk_alert[i].risk_score,
              risk_level |-> d.risk_alert[i].risk_level,
              rules |-> LET mine == SelectSeq(d.risk_explanation,
                                        LAMBDA e : e.alert_id = d.risk_alert[i].alert_id)
                        IN  [k \in DOMAIN mine |-> mine[k].rule_or_model]]],
     explanations |-> Len(d.risk_explanation),
     relationship_edge |->
         [i \in DOMAIN d.relationship_edge |->
             [src |-> EntityKey(d, d.relationship_edge[i].src_entity_id),
              dst |-> EntityKey(d, d.relationship_edge[i].dst_entity_id),
              edge_type |-> d.relationship_edge[i].edge_type,
              weight |-> d.relationship_edge[i].weight]]]

\* the entities population stores, each of them once
PopulatedEntities(d) ==
    LET mine == SelectSeq(d.entity, LAMBDA e : e.entity_type \in
                    {"PROCUREMENT_BUYER", "COMPANY", "BOND_PURCHASER", "POLITICAL_PARTY"})
    IN  /\ {<<mine[i].entity_type, mine[i].normalized_name>> : i \in DOMAIN mine}
               = {<<p[1], NormalizedName(p[2])>> : p \in EntityPairs(files)}
        /\ \A i, j \in DOMAIN mine :
               (mine[i].entity_type = mine[j].entity_type
                    /\ mine[i].normalized_name = mine[j].normalized_name) => i = j

\* one run of the population on a database that holds the empty tables only
OnePopulation ==
    LET rows == CHOOSE l \in ListOfSet(UniqueEntities(EntityPairs(files))) : TRUE
    IN  PopulateMain(CreateTables(EmptyDb, GraphTables), files, rows, 0)

\* what a re-run does keep: after a migration the five tables are those of one
\* migration on an empty database, load times aside; after a population that
\* load_all_to_neon did not cut into, the alerts, explanations and edges are
\* those of one population when each row is read with the entities it points to
\* and without its serial ids, and every entity of the input is stored once
ReplacedNotMerged ==
    /\ dpc = "migrated" => MigratedView(db) = MigratedView(MigrateMain(EmptyDb, files, 0))
    /\ (dpc = "populated" /\ ~pop.overlapped) =>
           /\ DerivedView(db) = DerivedView(OnePopulation)
           /\ PopulatedEntities(db)

\* C23: however often the migration and the risk-alert population have run on
\* the same input artifacts, the stored tables have the contents a single run
\* leaves: after a migration the five tables are those of one migration, and
\* after a population the four tables it writes are row for row what the first
\* population left in them.  The load times (created_at, generated_at) are the
\* clock of the run and are left out of the comparison.
C23_RerunIsIdempotent ==
    /\ dpc = "migrated" => MigratedView(db) = MigratedView(MigrateMain(EmptyDb, files, 0))
    /\ dpc = "populated" => runs.single = <<StoredView(db)>>

-----------------------------------------------------------------------------
(* Pipeline jobs: submit_tender, submit_tender_batch, _run_pipeline_for_tender *)

MaxJobs == 3
MaxBatch == 2

JobIds == 1..MaxJobs

NoJobs == [j \in JobIds |-> "none"]

\* job_id of the next INSERT INTO pipeline_job ... RETURNING job_id
NextJobId == Len(pipeline_job) + 1

StatusOf(j) == IF j \in DOMAIN pipeline_job THEN pipeline_job[j].status ELSE "none"

\* UPDATE pipeline_job SET status = s WHERE job_id = j
UpdateStatus(j, s) == [pipeline_job EXCEPT ![j].status = s]

\* number of procurement_tender rows stored by the worker of job j
RowsOf(j) == Len(SelectSeq(tender_rows, LAMBDA x : x = j))

\* INSERT INTO pipeline_job ... RETURNING job_id and its commit: the table after
\* an INSERT with the outcome o; a lost serial value is an entry of status
\* "none", a job_id that no row carries
InsertJob(o) ==
    CASE o = "stored" -> Append(pipeline_job, [status |-> "queued"])
      [] o = "lost" -> Append(pipeline_job, [status |-> "none"])
      [] OTHER -> pipeline_job

NoBatch == [pos |-> "idle", left |-> 0, ids |-> <<>>]

\* submit_tender: one job row with status 'queued', one background task; when
\* the INSERT raises, so does the handler
submit_tender(o) ==
    /\ NextJobId <= MaxJobs
    /\ o # "refused"
    /\ pipeline_job' = InsertJob(o)
    /\ wpc' = IF o = "stored" THEN [wpc EXCEPT ![NextJobId] = "pending"] ELSE wpc
    /\ after' = [after EXCEPT ![NextJobId] = 0]
    /\ UNCHANGED <<tender_rows, batch>>

\* submit_tender_batch up to its loop: the CSV of n rows is read and its columns
\* are mapped
submit_tender_batch(n) ==
    /\ batch.pos = "idle"
    /\ NextJobId <= MaxJobs
    /\ batch' = [pos |-> "loop", left |-> n, ids |-> <<>>]
    /\ UNCHANGED <<pipeline_job, tender_rows, wpc, after>>

\* one pass of the loop: the row is converted, its job is stored and committed
\* and its task is added behind the request's earlier tasks.  When the
\* conversion or the INSERT raises, the handler raises: the jobs stored so far
\* stay queued and the request's tasks are never run.
BatchInsertJob(o) ==
    /\ batch.pos = "loop"
    /\ batch.left > 0
    /\ o # "refused" => NextJobId <= MaxJobs
    /\ pipeline_job' = InsertJob(o)
    /\ IF o = "stored"
       THEN /\ wpc' = [wpc EXCEPT ![NextJobId] = "added"]
            /\ after' = [after EXCEPT ![NextJobId] =
                            IF batch.ids = <<>> THEN 0 ELSE batch.ids[Len(batch.ids)]]
            /\ batch' = [batch EXCEPT !.left = @ - 1, !.ids = Append(@, NextJobId)]
       ELSE /\ wpc' = [j \in JobIds |->
                          IF \E i \in DOMAIN batch.ids : batch.ids[i] = j THEN "dropped"
                          ELSE wpc[j]]
            /\ batch' = NoBatch
            /\ UNCHANGED after
    /\ UNCHANGED tender_rows

\* the handler returns after the last row: the response is sent and the tasks
\* of the request run one after the other, in the order they were added
BatchReturn ==
    /\ batch.pos = "loop"
    /\ batch.left = 0
    /\ wpc' = [j \in JobIds |->
                  IF \E i \in DOMAIN batch.ids : batch.ids[i] = j THEN "pending"
                  ELSE wpc[j]]
    /\ batch' = NoBatch
    /\ UNCHANGED <<pipeline_job, tender_rows, after>>

\* the task of job j is started once the task before it has returned; a task
\* that raised ends the request's task list
CanStart(j) ==
    /\ wpc[j] = "pending"
    /\ IF after[j] = 0 THEN TRUE ELSE wpc[after[j]] = "ended"

\* a step of the worker's try block: on success the step's effect and the next
\* position, on an exception no effect and the except block
TryStep(j, from, to, ok) ==
    /\ wpc[j] = from
    /\ wpc' = [wpc EXCEPT ![j] = IF ok THEN to ELSE "except"]
    /\ UNCHANGED <<after, batch>>

\* execute("UPDATE pipeline_job SET status = 'running' ...")
MarkRunning(j, ok) ==
    /\ CanStart(j)
    /\ wpc' = [wpc EXCEPT ![j] = IF ok THEN "flags" ELSE "except"]
    /\ pipeline_job' = IF ok THEN UpdateStatus(j, "running") ELSE pipeline_job
    /\ UNCHANGED <<tender_rows, after, batch>>

\* Step 1: compute_rule_flags (queries procurement_tender)
ComputeFlags(j, ok) ==
    /\ TryStep(j, "flags", "ml", ok)
    /\ UNCHANGED <<pipeline_job, tender_rows>>

\* Step 2: engineer_df, predict_df
PredictML(j, ok) ==
    /\ TryStep(j, "ml", "insert", ok)
    /\ UNCHANGED <<pipeline_job, tender_rows>>

\* Steps 3 and 4: execute("INSERT INTO procurement_tender ...") with the ocid
\* USER_<time>_<job_id>
InsertTenderRow(j, ok) ==
    /\ TryStep(j, "insert", "complete", ok)
    /\ tender_rows' = IF ok THEN Append(tender_rows, j) ELSE tender_rows
    /\ UNCHANGED pipeline_job

\* Step 5: execute("UPDATE pipeline_job SET status = 'completed' ...")
MarkCompleted(j, ok) ==
    /\ TryStep(j, "complete", "ended", ok)
    /\ pipeline_job' = IF ok THEN UpdateStatus(j, "completed") ELSE pipeline_job
    /\ UNCHANGED tender_rows

\* except Exception: execute("UPDATE pipeline_job SET status = 'failed' ...");
\* an exception of this statement leaves the worker
MarkFailed(j, ok) ==
    /\ wpc[j] = "except"
    /\ wpc' = [wpc EXCEPT ![j] = IF ok THEN "ended" ELSE "raised"]
    /\ pipeline_job' = IF ok THEN UpdateStatus(j, "failed") ELSE pipeline_job
    /\ UNCHANGED <<tender_rows, after, batch>>

\* one step of the worker of job j, whatever its outcome
WorkerStep(j) ==
    \E ok \in BOOLEAN :
        \/ MarkRunning(j, ok)
        \/ ComputeFlags(j, ok)
        \/ PredictML(j, ok)
        \/ InsertTenderRow(j, ok)
        \/ MarkCompleted(j, ok)
        \/ MarkFailed(j, ok)

InitJobs ==
    /\ IdleScore
    /\ artifacts = FALSE
    /\ IdleVendor
    /\ IdleMatch
    /\ IdleShell
    /\ IdleBond
    /\ IdleRun
    /\ IdleDb
    /\ pipeline_job = <<>>
    /\ tender_rows = <<>>
    /\ wpc = NoJobs
    /\ after = [j \in JobIds |-> 0]
    /\ batch = NoBatch

NextJobs ==
    \/ \E o \in InsertOutcomes : submit_tender(o) /\ UNCHANGED <<scoreVars, vendorVars, matchVars, shellVars, bondVars, runVars, dbVars>>
    \/ \E n \in 1..MaxBatch :
           submit_tender_batch(n) /\ UNCHANGED <<scoreVars, vendorVars, matchVars, shellVars, bondVars, runVars, dbVars>>
    \/ \E o \in InsertOutcomes : BatchInsertJob(o) /\ UNCHANGED <<scoreVars, vendorVars, matchVars, shellVars, bondVars, runVars, dbVars>>
    \/ BatchReturn /\ UNCHANGED <<scoreVars, vendorVars, matchVars, shellVars, bondVars, runVars, dbVars>>
    \/ \E j \in JobIds, ok \in BOOLEAN :
           MarkRunning(j, ok) /\ UNCHANGED <<scoreVars, vendorVars, matchVars, shellVars, bondVars, runVars, dbVars>>
    \/ \E j \in JobIds, ok \in BOOLEAN :
           ComputeFlags(j, ok) /\ UNCHANGED <<scoreVars, vendorVars, matchVars, shellVars, bondVars, runVars, dbVars>>
    \/ \E j \in JobIds, ok \in BOOLEAN :
           PredictML(j, ok) /\ UNCHANGED <<scoreVars, vendorVars, matchVars, shellVars, bondVars, runVars, dbVars>>
    \/ \E j \in JobIds, ok \in BOOLEAN :
           InsertTenderRow(j, ok) /\ UNCHANGED <<scoreVars, vendorVars, matchVars, shellVars, bondVars, runVars, dbVars>>
    \/ \E j \in JobIds, ok \in BOOLEAN :
           MarkCompleted(j, ok) /\ UNCHANGED <<scoreVars, vendorVars, matchVars, shellVars, bondVars, runVars, dbVars>>
    \/ \E j \in JobIds, ok \in BOOLEAN :
           MarkFailed(j, ok) /\ UNCHANGED <<scoreVars, vendorVars, matchVars, shellVars, bondVars, runVars, dbVars>>

SpecJobs == InitJobs /\ [][NextJobs]_vars

\* a started worker thread runs on: each of its steps is taken, with either
\* outcome
SpecJobsFair == SpecJobs /\ \A j \in JobIds : WF_vars(WorkerStep(j) /\ UNCHANGED <<scoreVars, vendorVars, matchVars, shellVars, bondVars, runVars, dbVars>>)

-----------------------------------------------------------------------------
(* Claims on pipeline jobs *)

Started(j) == wpc[j] \notin {"none", "added", "dropped", "pending"}
Finished(j) == StatusOf(j) \in {"completed", "failed"}

\* the status changes of one step: a new job is queued, a queued job becomes
\* running, a running job becomes completed or failed, nothing else changes
LifecycleStep ==
    \A j \in JobIds :
        LET a == StatusOf(j)
            b == IF j \in DOMAIN pipeline_job' THEN pipeline_job'[j].status ELSE "none"
        IN  \/ a = b
            \/ <<a, b>> \in {<<"none", "queued">>, <<"queued", "running">>,
                             <<"running", "completed">>, <<"running", "failed">>}

\* C29: a job starts queued; once its worker has started it passes through
\* running and eventually is completed or failed, one of the two, and keeps
\* that status; this also when a step of the worker fails
C29_JobLifecycle ==
    /\ [][LifecycleStep]_vars
    /\ \A j \in JobIds : Started(j) ~> Finished(j)

\* C30: a completed job has exactly one procurement_tender row stored for it,
\* a failed job has none, whichever step failed and however the workers of
\* concurrent jobs interleave
C30_RowIffCompleted ==
    \A j \in DOMAIN pipeline_job :
        /\ StatusOf(j) = "completed" => RowsOf(j) = 1
        /\ StatusOf(j) = "failed" => RowsOf(j) = 0

====
